---- MODULE Spec2Model ----
(***************************************************************************)
(* Model of the article segmentation engine of scripts/segment_articles.py *)
(* (detect_columns, assign_to_column, is_likely_headline and the loop of   *)
(* group_into_articles followed by its post-processing pass).              *)
(*                                                                         *)
(* Python floats: every comparison of the source that involves a division  *)
(* (page_width / 3, height sums / len, width / 2) is modelled on integers   *)
(* by multiplying both sides with the denominators, so the comparison has   *)
(* the same truth value as the source's on the values of the model.         *)
(***************************************************************************)
EXTENDS Integers, Sequences, FiniteSets, TLC

(***************************************************************************)
(* Bounds of the model                                                     *)
(***************************************************************************)
\* longest fragment list handed to group_into_articles
MaxBlocks == 4

(***************************************************************************)
(* Characters and the str methods used by is_likely_headline               *)
(***************************************************************************)
UpperSeq == <<"A", "B", "C", "D", "E", "F", "G", "H", "I", "J", "K", "L", "M", "N", "O", "P", "Q", "R", "S", "T", "U", "V", "W", "X", "Y", "Z">>

LowerSeq == <<"a", "b", "c", "d", "e", "f", "g", "h", "i", "j", "k", "l", "m", "n", "o", "p", "q", "r", "s", "t", "u", "v", "w", "x", "y", "z">>

IsUpperChar(c) == \E k \in 1..Len(UpperSeq) : UpperSeq[k] = c

IsLowerChar(c) == \E k \in 1..Len(LowerSeq) : LowerSeq[k] = c

IsCased(c) == IsUpperChar(c) \/ IsLowerChar(c)

LowerChar(c) ==
    IF IsUpperChar(c)
    THEN LowerSeq[CHOOSE k \in 1..Len(UpperSeq) : UpperSeq[k] = c]
    ELSE c

\* str.lower()
lower(text) == [k \in 1..Len(text) |-> LowerChar(text[k])]

\* str.isupper(): at least one cased character and no lowercase character
isupper(text) ==
    /\ \E k \in 1..Len(text) : IsCased(text[k])
    /\ \A k \in 1..Len(text) : ~IsLowerChar(text[k])

\* str.istitle(): uppercase characters only after uncased ones, lowercase
\* characters only after cased ones, and at least one cased character
istitle(text) ==
    /\ \E k \in 1..Len(text) : IsCased(text[k])
    /\ \A k \in 1..Len(text) :
          LET prevCased == k > 1 /\ IsCased(text[k - 1])
          IN  /\ IsUpperChar(text[k]) => ~prevCased
              /\ IsLowerChar(text[k]) => prevCased

\* the Python operator  word in text  on strings
Contains(word, text) ==
    \E s \in 0..(Len(text) - Len(word)) :
        \A k \in 1..Len(word) : text[s + k] = word[k]

HeadlineWords ==
    { <<"m", "u", "r", "d", "e", "r">>,
      <<"a", "r", "r", "e", "s", "t", "e", "d">>,
      <<"f", "o", "u", "n", "d">>,
      <<"d", "e", "a", "t", "h">>,
      <<"t", "r", "i", "a", "l">>,
      <<"p", "o", "l", "i", "c", "e">> }

(***************************************************************************)
(* Input fragments                                                         *)
(***************************************************************************)
TextEmpty == <<>>

TextUpper == <<"W", "H", "I", "T", "E", "C", "H", "A", "P", "E", "L", " ", "H", "O", "R", "R", "O", "R">>

TextPlain == <<"h", "e", " ", "s", "a", "i", "d">>

\* Frag(text, x, y, width, height): a fragment as the OCR stage emits it; its
\* column field holds the index written upstream, before segmentation
Frag(t, x, y, w, h) ==
    [text |-> t, bbox |-> [x |-> x, y |-> y, width |-> w, height |-> h], column |-> 0]

\* The fragments the input lists are built from.  With PageWidths = {30} the
\* columns are [0,10), [10,20), [20,30).
Blocks ==
    { Frag(TextPlain, 0, 0, 4, 10),      \* column 0, a stack of body lines
      Frag(TextPlain, 0, 10, 4, 10),
      Frag(TextPlain, 0, 20, 4, 10),
      Frag(TextPlain, 1, 30, 2, 10),     \* gap of exactly 2 x 10 below the first line
      Frag(TextPlain, 0, 300, 4, 10),    \* far below
      Frag(TextPlain, 12, 0, 4, 10),     \* column 1
      Frag(TextPlain, 2, 10, 6, 20),     \* taller and wider than the body lines
      Frag(TextUpper, 0, 0, 4, 10),      \* upper-case line at the top
      Frag(TextUpper, 0, 10, 4, 10),     \* upper-case line right below a body line
      Frag(TextEmpty, 0, 0, 4, 20) }     \* tall fragment with empty text

PageWidths == {30}

(***************************************************************************)
(* State                                                                   *)
(***************************************************************************)
VARIABLES
    pc,               \* position in group_into_articles
    text_blocks,      \* the caller's fragment list (dicts are mutated in place)
    page_width,
    sorted_blocks,
    i,                \* index of the next fragment of sorted_blocks (1-based)
    articles,
    current_article,  \* <<>> for None, <<a>> for an open article a
    article_id,
    result,           \* the returned list
    \* main() of segment_articles.py
    main_pc,          \* position in main
    ocr_data,         \* the loaded OCR output: a list of pdfs, each with its pages
    pdf_idx,          \* indices of the page main is at (1-based)
    page_idx,
    all_articles,
    article_counter,
    output,           \* <<>> until the results are saved, then <<output_data>>
    \* one call of a function that is checked on its own
    fn_pc,
    fn_args,
    fn_ret,
    \* one run of a script that is checked on its own
    locals,           \* the local variables of the running function
    world             \* what the run has done outside itself: calls made, files written

groupVars == <<pc, text_blocks, page_width, sorted_blocks, i, articles, current_article, article_id, result>>

mainVars == <<main_pc, ocr_data, pdf_idx, page_idx, all_articles, article_counter, output>>

fnVars == <<fn_pc, fn_args, fn_ret, locals, world>>

\* everything outside the frame of group_into_articles
outerVars == <<mainVars, fnVars>>

vars == <<groupVars, mainVars, fnVars>>

(***************************************************************************)
(* detect_columns / assign_to_column                                       *)
(***************************************************************************)
NumColumnsHint == 3

\* columns (start_x, end_x) = (i * W/3, (i+1) * W/3), kept as numerators over
\* NumColumnsHint; empty when there are no text blocks
detect_columns(blocks, width) ==
    IF blocks = <<>> THEN <<>>
    ELSE [c \in 1..NumColumnsHint |-> [start_x |-> (c - 1) * width, end_x |-> c * width]]

\* variant: the band is found from the left edge of the fragment
assign_to_column_leftEdge(block, columns) ==
    LET xc2 == 2 * block.bbox.x
        hit(c) == /\ 2 * columns[c].start_x <= NumColumnsHint * xc2
                  /\ NumColumnsHint * xc2 < 2 * columns[c].end_x
    IN  IF \E c \in 1..Len(columns) : hit(c)
        THEN (CHOOSE c \in 1..Len(columns) : hit(c) /\ \A d \in 1..(c - 1) : ~hit(d)) - 1
        ELSE Len(columns) - 1

\* variant: the index is counted on from the one the fragment carries
assign_to_column_relative(block, columns) ==
    LET xc2 == 2 * block.bbox.x + block.bbox.width
        hit(c) == /\ 2 * columns[c].start_x <= NumColumnsHint * xc2
                  /\ NumColumnsHint * xc2 < 2 * columns[c].end_x
    IN  block.column +
        (IF \E c \in 1..Len(columns) : hit(c)
         THEN (CHOOSE c \in 1..Len(columns) : hit(c) /\ \A d \in 1..(c - 1) : ~hit(d)) - 1
         ELSE Len(columns) - 1)

\* x_center = x + width / 2; start_x <= x_center < end_x, both sides times
\* 2 * NumColumnsHint.  Returns the 0-based column index.
assign_to_column(block, columns) ==
    LET xc2 == 2 * block.bbox.x + block.bbox.width
        hit(c) == /\ 2 * columns[c].start_x <= NumColumnsHint * xc2
                  /\ NumColumnsHint * xc2 < 2 * columns[c].end_x
    IN  IF \E c \in 1..Len(columns) : hit(c)
        THEN (CHOOSE c \in 1..Len(columns) : hit(c) /\ \A d \in 1..(c - 1) : ~hit(d)) - 1
        ELSE Len(columns) - 1

(***************************************************************************)
(* is_likely_headline                                                      *)
(***************************************************************************)
RECURSIVE SumHeights(_)
SumHeights(blocks) ==
    IF blocks = <<>> THEN 0
    ELSE Head(blocks).bbox.height + SumHeights(Tail(blocks))

ShortTextCutoff == 100

MinHeadlineScore == 2

\* height > avg_height * 1.3 with avg_height = sum / len (or height itself
\* for an empty neighbourhood), both sides times 10 * len
is_tall(block, surrounding_blocks) ==
    IF surrounding_blocks # <<>>
    THEN block.bbox.height * 10 * Len(surrounding_blocks) > SumHeights(surrounding_blocks) * 13
    ELSE block.bbox.height * 10 > block.bbox.height * 13

is_short(text) == Len(text) < ShortTextCutoff

is_title_case(text) == istitle(text) \/ isupper(text)

has_headline_words(text) == \E word \in HeadlineWords : Contains(word, lower(text))

B2N(b) == IF b THEN 1 ELSE 0

\* variant: the keywords are not counted
headline_score_noKeywords(block, surrounding_blocks) ==
    B2N(is_tall(block, surrounding_blocks)) + B2N(is_short(block.text))
      + B2N(is_title_case(block.text))

headline_score(block, surrounding_blocks) ==
    B2N(is_tall(block, surrounding_blocks)) + B2N(is_short(block.text))
      + B2N(is_title_case(block.text)) + B2N(has_headline_words(block.text))

is_likely_headline(block, surrounding_blocks) ==
    headline_score(block, surrounding_blocks) >= MinHeadlineScore

(***************************************************************************)
(* sorted(text_blocks, key = (column, bbox.y)): stable                    *)
(***************************************************************************)
\* variant: the sort key without the column
KeyLeq_yOnly(a, b) == a.bbox.y <= b.bbox.y

KeyLeq(a, b) ==
    \/ a.column < b.column
    \/ a.column = b.column /\ a.bbox.y <= b.bbox.y

\* insert b behind every element whose key is not greater (stability)
RECURSIVE InsertSorted(_, _)
InsertSorted(b, s) ==
    IF s = <<>> THEN <<b>>
    ELSE IF KeyLeq(Head(s), b) THEN <<Head(s)>> \o InsertSorted(b, Tail(s))
         ELSE <<b>> \o s

RECURSIVE SortBlocks(_)
SortBlocks(s) ==
    IF s = <<>> THEN <<>>
    ELSE InsertSorted(s[Len(s)], SortBlocks(SubSeq(s, 1, Len(s) - 1)))

(***************************************************************************)
(* group_into_articles                                                     *)
(***************************************************************************)
Max(a, b) == IF a > b THEN a ELSE b

Min(a, b) == IF a < b THEN a ELSE b

\* f"article_{article_id}"
FormatArticleId(n) == <<"article_", n>>

\* variant: the gap comparison turned round
GapBreak_flipped(block, prev_block) ==
    LET gap == block.bbox.y - (prev_block.bbox.y + prev_block.bbox.height)
    IN  gap * 2 < (block.bbox.height + prev_block.bbox.height) * 2

\* variant: a gap equal to the threshold already breaks
GapBreak_geq(block, prev_block) ==
    LET gap == block.bbox.y - (prev_block.bbox.y + prev_block.bbox.height)
    IN  gap * 2 >= (block.bbox.height + prev_block.bbox.height) * 2

\* gap > avg_height * 2 with avg_height = (height + prev height) / 2
GapBreak(block, prev_block) ==
    LET gap == block.bbox.y - (prev_block.bbox.y + prev_block.bbox.height)
    IN  gap * 2 > (block.bbox.height + prev_block.bbox.height) * 2

\* variant: the column test compares the fragment with itself
ColumnBreak_self(block, prev_block) == block.column # block.column

ColumnBreak(block, prev_block) == block.column # prev_block.column

\* variant: a fragment classified as a headline also forces a break
StartNew_headline(cur, blocks, k) ==
    IF cur = <<>> THEN TRUE
    ELSE \/ GapBreak(blocks[k], blocks[k - 1])
         \/ ColumnBreak(blocks[k], blocks[k - 1])
         \/ is_likely_headline(blocks[k], SubSeq(blocks, IF k > 2 THEN k - 2 ELSE 1,
                                                  IF k + 2 < Len(blocks) THEN k + 2 ELSE Len(blocks)))

StartNew(cur, blocks, k) ==
    IF cur = <<>> THEN TRUE
    ELSE GapBreak(blocks[k], blocks[k - 1]) \/ ColumnBreak(blocks[k], blocks[k - 1])

\* sorted_blocks[max(0, i-2):min(len(sorted_blocks), i+3)] for the 0-based i = k - 1
Surrounding(blocks, k) == SubSeq(blocks, Max(1, k - 2), Min(Len(blocks), k + 2))

\* variant: the articles of a page are numbered on from the run's counter
NewArticle_runCounter(blocks, k, id) ==
    LET block == blocks[k]
    IN  [ article_id |-> FormatArticleId(article_counter + id - 1),
          headline   |-> IF is_likely_headline(block, Surrounding(blocks, k)) THEN block.text ELSE <<>>,
          blocks     |-> <<block>>,
          column     |-> block.column,
          start_y    |-> block.bbox.y,
          end_y      |-> block.bbox.y + block.bbox.height ]

\* lines 151-158
NewArticle(blocks, k, id) ==
    LET block == blocks[k]
    IN  [ article_id |-> FormatArticleId(id),
          headline   |-> IF is_likely_headline(block, Surrounding(blocks, k)) THEN block.text ELSE <<>>,
          blocks     |-> <<block>>,
          column     |-> block.column,
          start_y    |-> block.bbox.y,
          end_y      |-> block.bbox.y + block.bbox.height ]

\* variant: the else branch updates end_y and the headline but not the list
AppendBlock_dropped(article, block) ==
    [ article EXCEPT
        !.end_y = block.bbox.y + block.bbox.height,
        !.headline = IF article.headline = <<>> /\ is_likely_headline(block, Append(article.blocks, block))
                     THEN block.text ELSE @ ]

\* variant: the else branch never looks for a headline
AppendBlock_noBackfill(article, block) ==
    [ article EXCEPT
        !.blocks = Append(article.blocks, block),
        !.end_y = block.bbox.y + block.bbox.height ]

\* variant: the headline is updated without testing that there is none yet
AppendBlock_overwrite(article, block) ==
    [ article EXCEPT
        !.blocks = Append(article.blocks, block),
        !.end_y = block.bbox.y + block.bbox.height,
        !.headline = IF is_likely_headline(block, Append(article.blocks, block))
                     THEN block.text ELSE @ ]

AppendBlock(article, block) ==
    LET blocks2 == Append(article.blocks, block)
    IN  [ article EXCEPT
            !.blocks = blocks2,
            !.end_y = block.bbox.y + block.bbox.height,
            !.headline = IF article.headline = <<>> /\ is_likely_headline(block, blocks2)
                         THEN block.text ELSE @ ]

\* A fragment violates the input contract when it has no bbox.
Malformed(block) == "bbox" \notin DOMAIN block

\* line 30 (detect_columns) reads block["bbox"] of every block: KeyError
PrepareRaises(blocks) == \E k \in 1..Len(blocks) : Malformed(blocks[k])

\* variant: the average divides by the heights' sum
HeadlineDivisor_sumHeights(surrounding_blocks) == SumHeights(surrounding_blocks)

\* the divisor of line 73, len(surrounding_blocks)
HeadlineDivisor(surrounding_blocks) == Len(surrounding_blocks)

\* line 73 divides only for a non-empty neighbourhood: ZeroDivisionError
AvgHeightRaises(surrounding_blocks) ==
    surrounding_blocks # <<>> /\ HeadlineDivisor(surrounding_blocks) = 0

\* An iteration of the loop calls is_likely_headline at line 149 for a block
\* that starts an article and at line 166 for a block appended to an article
\* without headline; line 133 divides by the literal 2.
LoopRaises(cur, blocks, k) ==
    IF StartNew(cur, blocks, k)
    THEN AvgHeightRaises(Surrounding(blocks, k))
    ELSE cur[1].headline = <<>> /\ AvgHeightRaises(Append(cur[1].blocks, blocks[k]))

\* variant: the empty list is rejected
ReturnEmpty_raises ==
    /\ pc = "start"
    /\ text_blocks = <<>>
    /\ pc' = "raised"
    /\ main_pc' = IF main_pc = "in_page" THEN "crashed" ELSE main_pc
    /\ UNCHANGED <<text_blocks, page_width, sorted_blocks, i, articles, current_article, article_id, result>>
    /\ UNCHANGED <<ocr_data, pdf_idx, page_idx, all_articles, article_counter, output, fnVars>>

\* lines 100-101: empty input
ReturnEmpty ==
    /\ pc = "start"
    /\ text_blocks = <<>>
    /\ result' = <<>>
    /\ pc' = "done"
    /\ UNCHANGED <<text_blocks, page_width, sorted_blocks, i, articles, current_article, article_id>>
    /\ UNCHANGED outerVars

\* lines 103-116: detect columns, assign them in place, sort, initialise the loop
Prepare ==
    /\ pc = "start"
    /\ text_blocks # <<>>
    /\ ~PrepareRaises(text_blocks)
    /\ LET columns == detect_columns(text_blocks, page_width)
       IN  text_blocks' = [k \in 1..Len(text_blocks) |->
                             [text_blocks[k] EXCEPT !.column = assign_to_column(text_blocks[k], columns)]]
    /\ sorted_blocks' = SortBlocks(text_blocks')
    /\ articles' = <<>>
    /\ current_article' = <<>>
    /\ article_id' = 1
    /\ i' = 1
    /\ pc' = "loop"
    /\ UNCHANGED <<page_width, result>>
    /\ UNCHANGED outerVars

\* lines 118-167: one iteration of the loop over sorted_blocks
LoopStep ==
    /\ pc = "loop"
    /\ i <= Len(sorted_blocks)
    /\ ~LoopRaises(current_article, sorted_blocks, i)
    /\ IF StartNew(current_article, sorted_blocks, i)
       THEN /\ articles' = articles \o current_article
            /\ current_article' = <<NewArticle(sorted_blocks, i, article_id)>>
            /\ article_id' = article_id + 1
       ELSE /\ current_article' = <<AppendBlock(current_article[1], sorted_blocks[i])>>
            /\ UNCHANGED <<articles, article_id>>
    /\ i' = i + 1
    /\ UNCHANGED <<pc, text_blocks, page_width, sorted_blocks, result>>
    /\ UNCHANGED outerVars

\* An exception leaves group_into_articles; nothing in process_page or main
\* catches it, so a running main dies with it.
Raise ==
    /\ IF pc = "start" THEN text_blocks # <<>> /\ PrepareRaises(text_blocks)
       ELSE IF pc = "loop" THEN i <= Len(sorted_blocks) /\ LoopRaises(current_article, sorted_blocks, i)
       ELSE FALSE
    /\ pc' = "raised"
    /\ main_pc' = IF main_pc = "in_page" THEN "crashed" ELSE main_pc
    /\ UNCHANGED <<text_blocks, page_width, sorted_blocks, i, articles, current_article, article_id, result>>
    /\ UNCHANGED <<ocr_data, pdf_idx, page_idx, all_articles, article_counter, output, fnVars>>

\* lines 169-171: add the last article
AddLast ==
    /\ pc = "loop"
    /\ i > Len(sorted_blocks)
    /\ articles' = articles \o current_article
    /\ pc' = "post"
    /\ UNCHANGED <<text_blocks, page_width, sorted_blocks, i, current_article, article_id, result>>
    /\ UNCHANGED outerVars

\* variant: joined without the separator
RECURSIVE JoinSpace_noSep(_)
JoinSpace_noSep(texts) ==
    IF texts = <<>> THEN <<>> ELSE Head(texts) \o JoinSpace_noSep(Tail(texts))

\* " ".join(texts)
RECURSIVE JoinSpace(_)
JoinSpace(texts) ==
    IF texts = <<>> THEN <<>>
    ELSE IF Len(texts) = 1 THEN texts[1]
         ELSE texts[1] \o <<" ">> \o JoinSpace(Tail(texts))

\* len(text.split()): number of maximal runs of non-whitespace characters
WordCount(text) ==
    Cardinality({ k \in 1..Len(text) : text[k] # " " /\ (k = 1 \/ text[k - 1] = " ") })

RECURSIVE MinOf(_)
MinOf(s) == IF Len(s) = 1 THEN s[1] ELSE Min(s[1], MinOf(Tail(s)))

RECURSIVE MaxOf(_)
MaxOf(s) == IF Len(s) = 1 THEN s[1] ELSE Max(s[1], MaxOf(Tail(s)))

\* variant: the height of the bbox taken from the article's start_y and end_y
PostProcess_spanY(article) ==
    LET bs == article.blocks
        all_x == [k \in 1..Len(bs) |-> bs[k].bbox.x]
        all_y == [k \in 1..Len(bs) |-> bs[k].bbox.y]
        all_x_end == [k \in 1..Len(bs) |-> bs[k].bbox.x + bs[k].bbox.width]
        all_y_end == [k \in 1..Len(bs) |-> bs[k].bbox.y + bs[k].bbox.height]
        full_text == JoinSpace([k \in 1..Len(bs) |-> bs[k].text])
    IN  [ article_id |-> article.article_id,
          headline   |-> article.headline,
          column     |-> article.column,
          start_y    |-> article.start_y,
          end_y      |-> article.end_y,
          full_text  |-> full_text,
          bbox       |-> [ x |-> MinOf(all_x),
                           y |-> MinOf(all_y),
                           width |-> MaxOf(all_x_end) - MinOf(all_x),
                           height |-> article.end_y - article.start_y ],
          word_count |-> WordCount(full_text),
          num_blocks |-> Len(bs) ]

\* lines 174-196: the record an article becomes in the post-processing pass
PostProcess(article) ==
    LET bs == article.blocks
        all_x == [k \in 1..Len(bs) |-> bs[k].bbox.x]
        all_y == [k \in 1..Len(bs) |-> bs[k].bbox.y]
        all_x_end == [k \in 1..Len(bs) |-> bs[k].bbox.x + bs[k].bbox.width]
        all_y_end == [k \in 1..Len(bs) |-> bs[k].bbox.y + bs[k].bbox.height]
        full_text == JoinSpace([k \in 1..Len(bs) |-> bs[k].text])
    IN  [ article_id |-> article.article_id,
          headline   |-> article.headline,
          column     |-> article.column,
          start_y    |-> article.start_y,
          end_y      |-> article.end_y,
          full_text  |-> full_text,
          bbox       |-> [ x |-> MinOf(all_x),
                           y |-> MinOf(all_y),
                           width |-> MaxOf(all_x_end) - MinOf(all_x),
                           height |-> MaxOf(all_y_end) - MinOf(all_y) ],
          word_count |-> WordCount(full_text),
          num_blocks |-> Len(bs) ]

\* lines 173-198: post-process every article in place and return the list
Finish ==
    /\ pc = "post"
    /\ articles' = [k \in 1..Len(articles) |-> PostProcess(articles[k])]
    /\ result' = articles'
    /\ current_article' = <<articles'[Len(articles')]>>   \* the same dict as the last article
    /\ pc' = "done"
    /\ UNCHANGED <<text_blocks, page_width, sorted_blocks, i, article_id>>
    /\ UNCHANGED outerVars

\* ---------------------------------------------------------------------------
\* group_into_articles as a function of its arguments (lines 93-198)
\* ---------------------------------------------------------------------------

\* lines 104-108
AssignColumns(blocks, width) ==
    LET columns == detect_columns(blocks, width)
    IN  [k \in 1..Len(blocks) |-> [blocks[k] EXCEPT !.column = assign_to_column(blocks[k], columns)]]

\* lines 118-171: the loop from its k-th iteration on, and the last article
RECURSIVE GroupLoop(_, _, _, _, _)
GroupLoop(blocks, k, arts, cur, id) ==
    IF k > Len(blocks) THEN arts \o cur
    ELSE IF StartNew(cur, blocks, k)
         THEN GroupLoop(blocks, k + 1, arts \o cur, <<NewArticle(blocks, k, id)>>, id + 1)
         ELSE GroupLoop(blocks, k + 1, arts, <<AppendBlock(cur[1], blocks[k])>>, id)

group_into_articles(blocks, width) ==
    IF blocks = <<>> THEN <<>>
    ELSE LET arts == GroupLoop(SortBlocks(AssignColumns(blocks, width)), 1, <<>>, <<>>, 1)
         IN  [k \in 1..Len(arts) |-> PostProcess(arts[k])]

\* ---------------------------------------------------------------------------
\* extract_date_from_text (lines 200-217), called by process_page (line 236)
\* ---------------------------------------------------------------------------

IsDigit(c) == c \in {"0", "1", "2", "3", "4", "5", "6", "7", "8", "9"}

\* \s of the re module, on the characters OCR text carries
IsSpace(c) == c \in {" ", "\t", "\n"}

\* A greedy repetition of one character class starting at position p: the
\* position after the run.  The class that follows each run in the three
\* patterns is disjoint from the run's class, so backtracking into the run
\* never finds a match.
SkipLower(s, p) ==
    CHOOSE q \in p..(Len(s) + 1) :
        /\ \A r \in p..(q - 1) : IsLowerChar(s[r])
        /\ q = Len(s) + 1 \/ ~IsLowerChar(s[q])

SkipSpace(s, p) ==
    CHOOSE q \in p..(Len(s) + 1) :
        /\ \A r \in p..(q - 1) : IsSpace(s[r])
        /\ q = Len(s) + 1 \/ ~IsSpace(s[q])

SkipDigit(s, p) ==
    CHOOSE q \in p..(Len(s) + 1) :
        /\ \A r \in p..(q - 1) : IsDigit(s[r])
        /\ q = Len(s) + 1 \/ ~IsDigit(s[q])

\* Each of the following gives the position after the piece of a pattern
\* matched at position p, or 0 when the piece does not match there.

\* \d{1,2} followed by a non-digit piece: one or two digits, as many as there are
Day(s, p) ==
    LET q == SkipDigit(s, p)
    IN  IF q = p THEN 0 ELSE IF q - p > 2 THEN p + 2 ELSE q

\* \d{4}
Year(s, p) ==
    IF p + 3 <= Len(s) /\ \A r \in p..(p + 3) : IsDigit(s[r]) THEN p + 4 ELSE 0

\* an optional single character
Opt(s, p, c) == IF p <= Len(s) /\ s[p] = c THEN p + 1 ELSE p

\* \s+
Spaces(s, p) == LET q == SkipSpace(s, p) IN IF q = p THEN 0 ELSE q

\* [A-Z][a-z]+\.?
Month(s, p) ==
    IF p > Len(s) \/ ~IsUpperChar(s[p]) THEN 0
    ELSE LET q == SkipLower(s, p + 1)
         IN  IF q = p + 1 THEN 0 ELSE Opt(s, q, ".")

\* line 207: [A-Z][a-z]+\.?\s+\d{1,2},?\s+\d{4}
MonthDayYear(s, p) ==
    LET a == Month(s, p) IN IF a = 0 THEN 0 ELSE
    LET b == Spaces(s, a) IN IF b = 0 THEN 0 ELSE
    LET c == Day(s, b) IN IF c = 0 THEN 0 ELSE
    LET d == Spaces(s, Opt(s, c, ",")) IN IF d = 0 THEN 0 ELSE Year(s, d)

\* line 208: \d{1,2}\s+[A-Z][a-z]+\.?\s+\d{4}
DayMonthYear(s, p) ==
    LET a == Day(s, p) IN IF a = 0 THEN 0 ELSE
    LET b == Spaces(s, a) IN IF b = 0 THEN 0 ELSE
    LET c == Month(s, b) IN IF c = 0 THEN 0 ELSE
    LET d == Spaces(s, c) IN IF d = 0 THEN 0 ELSE Year(s, d)

\* line 209: \d{1,2}/\d{1,2}/\d{4}
Slashed(s, p) ==
    LET a == Day(s, p) IN IF a = 0 \/ a > Len(s) \/ s[a] # "/" THEN 0 ELSE
    LET b == Day(s, a + 1) IN IF b = 0 \/ b > Len(s) \/ s[b] # "/" THEN 0 ELSE Year(s, b + 1)

\* the patterns in the order of the list of lines 206-210
MatchAt(n, s, p) ==
    IF n = 1 THEN MonthDayYear(s, p)
    ELSE IF n = 2 THEN DayMonthYear(s, p)
    ELSE Slashed(s, p)

NumPatterns == 3

\* re.search: the leftmost position where the pattern matches
Found(n, s) == \E p \in 1..Len(s) : MatchAt(n, s, p) # 0

Search(n, s) ==
    LET p == CHOOSE p \in 1..Len(s) :
                 /\ MatchAt(n, s, p) # 0
                 /\ \A r \in 1..(p - 1) : MatchAt(n, s, r) = 0
    IN  SubSeq(s, p, MatchAt(n, s, p) - 1)

\* lines 212-217: the first pattern of the list that matches anywhere wins;
\* None is <<>>, a date d is <<d>>
extract_date_from_text(text) ==
    IF \E n \in 1..NumPatterns : Found(n, text)
    THEN LET n == CHOOSE n \in 1..NumPatterns :
                      Found(n, text) /\ \A m \in 1..(n - 1) : ~Found(m, text)
         IN  <<Search(n, text)>>
    ELSE <<>>

FullTextWindow == 200

\* s[:n]
Prefix(s, n) == SubSeq(s, 1, Min(n, Len(s)))

DateWindow_wholeText(article) == article.headline \o <<" ">> \o article.full_text

\* line 236: the text handed to extract_date_from_text
DateWindow(article) ==
    article.headline \o <<" ">> \o Prefix(article.full_text, FullTextWindow)

\* main is not running
NoMain ==
    /\ main_pc = "none"
    /\ ocr_data = <<>>
    /\ pdf_idx = 0
    /\ page_idx = 0
    /\ all_articles = <<>>
    /\ article_counter = 0
    /\ output = <<>>

\* no function is called on its own
NoCall ==
    /\ fn_pc = "none"
    /\ fn_args = <<>>
    /\ fn_ret = <<>>
    /\ locals = <<>>
    /\ world = <<>>

\* no call of group_into_articles is in progress
NoGroup ==
    /\ pc = "idle"
    /\ text_blocks = <<>>
    /\ page_width = 0
    /\ sorted_blocks = <<>>
    /\ i = 0
    /\ articles = <<>>
    /\ current_article = <<>>
    /\ article_id = 0
    /\ result = <<>>

\* n copies of s
RECURSIVE Repeat(_, _)
Repeat(s, n) == IF n = 0 THEN <<>> ELSE s \o Repeat(s, n - 1)

\* 187 characters of body text without a date
Filler == Repeat(<<"h", "e", " ", "s", "a", "i", "d", " ", "s", "o", " ">>, 17)

\* The headlines and the body texts of the articles whose date is extracted:
\* each pattern alone, two patterns in one text, near misses of each pattern,
\* and dates lying across and beyond the cut at 200 characters.
DateHeadlines ==
    { TextEmpty,
      TextUpper,
      <<"S", "e", "p", "t", ".", " ", "1", "5", ",", " ", "1", "8", "8", "8">>,
      <<"T", "h", "e", " ", "1", "5", " ", "S", "e", "p", "t", " ", "1", "8", "8", "8">>,
      <<"F", "o", "u", "n", "d", " ", "D", "e", "a", "d", " ", "1", "/", "2", "/", "1", "8", "8", "8">> }

DateTexts ==
    { TextPlain,
      <<"o", "n", " ", "9", "/", "1", "5", "/", "1", "8", "8", "8", " ", "h", "e", " ", "s", "a", "i", "d">>,
      <<"o", "n", " ", "1", "5", " ", "S", "e", "p", "t", " ", "1", "8", "8", "8", ",", " ", "n", "o", "t", " ", "O", "c", "t", " ", "2", " ", "1", "8", "8", "8">>,
      <<"S", "e", "p", "t", "e", "m", "b", "e", "r", " ", " ", "1", "5", ",", " ", " ", "1", "8", "8", "8", "1">>,
      <<"S", "e", "p", "t", " ", "1", "5", "5", ",", " ", "1", "8", "8", "8">>,
      <<"s", "e", "p", "t", " ", "5", ",", " ", "1", "8", "8", "8">>,
      <<"S", "e", "p", "t", " ", "5", ",", "1", "8", "8", "8">>,
      <<"3", "1", "2", " ", "J", "a", "n", ".", " ", "1", "8", "8", "8">>,
      <<"1", "2", "/", "1", "2", "3", "/", "1", "8", "8", "8", " ", "o", "r", " ", "3", "/", "4", "/", "8", "8">>,
      Filler \o <<"o", "n", " ", "1", "5", " ", "S", "e", "p", "t", " ", "1", "8", "8", "8">>,
      Filler \o <<"h", "e", " ", "s", "a", "i", "d", " ", "s", "o", " ", "h", "e", " ", "s", "a", "i", "d", " ", "O", "c", "t", " ", "2", ",", " ", "1", "8", "8", "8">>,
      <<"a", "t", " ", "5", " ", "O", "c", "t", ".", " ", "1", "8", "8", "8", " ">> \o Filler \o <<"O", "c", "t", " ", "2", ",", " ", "1", "8", "8", "8">> }

DateArticles == [headline : DateHeadlines, full_text : DateTexts]

\* lines 236-237 for one article
ExtractDate ==
    /\ fn_pc = "call"
    /\ fn_ret' = extract_date_from_text(DateWindow(fn_args))
    /\ fn_pc' = "returned"
    /\ UNCHANGED <<fn_args, groupVars, mainVars, locals, world>>

DateInit ==
    /\ NoGroup
    /\ NoMain
    /\ fn_pc = "call"
    /\ fn_args \in DateArticles
    /\ fn_ret = <<>>
    /\ locals = <<>>
    /\ world = <<>>

DateNext == ExtractDate

DateSpec == DateInit /\ [][DateNext]_vars

\* ---------------------------------------------------------------------------
\* process_page (lines 219-239) and main (lines 241-303)
\* ---------------------------------------------------------------------------

MaxPages == 3

\* dict.get(key, default)
Get(d, key, default) == IF key \in DOMAIN d THEN d[key] ELSE default

DefaultImageWidth == 2000

\* The pages of the OCR output, without their page number.  process_pdfs.py
\* writes an error record for a page it could not render and text_blocks and
\* image_width for every other page.
PageError == [error |-> "render failed"]

PageEmpty == [text_blocks |-> <<>>, image_width |-> 30]

PageNoKeys == [image_path |-> "page.png"]

PageHeadline ==
    [text_blocks |-> <<Frag(TextUpper, 0, 0, 4, 10), Frag(TextPlain, 0, 10, 4, 10)>>,
     image_width |-> 30]

PageTwoColumns ==
    [text_blocks |-> <<Frag(TextPlain, 12, 0, 4, 10), Frag(TextPlain, 0, 0, 4, 10)>>,
     image_width |-> 30]

PageZeroAlone == [text_blocks |-> <<Frag(TextPlain, 0, 0, 4, 0)>>, image_width |-> 30]

PageZeroPair ==
    [text_blocks |-> <<Frag(TextPlain, 0, 5, 4, 0), Frag(TextUpper, 0, 0, 4, 0)>>,
     image_width |-> 30]

\* a fragment without bbox after a well-formed one
PageMalformed ==
    [text_blocks |-> <<Frag(TextUpper, 0, 0, 4, 10), [text |-> TextPlain, column |-> 0]>>,
     image_width |-> 30]

PageBodies ==
    { PageError, PageEmpty, PageNoKeys, PageHeadline, PageTwoColumns,
      PageZeroAlone, PageZeroPair, PageMalformed }

\* the pages of one document, numbered from 1 as process_pdfs.py numbers them
Pdf(name, bodies) ==
    [filename |-> name,
     pages |-> [n \in 1..Len(bodies) |-> [page_number |-> n] @@ bodies[n]]]

\* the decimal digits of a natural number
RECURSIVE Decimal(_)
Decimal(n) ==
    LET d == <<"0", "1", "2", "3", "4", "5", "6", "7", "8", "9">>[(n % 10) + 1]
    IN  IF n < 10 THEN <<d>> ELSE Append(Decimal(n \div 10), d)

GlobalIdWidth == 3

\* line 275: f"article_{article_counter:03d}"
FormatGlobalId(n) ==
    LET digits == Decimal(n)
    IN  <<"a", "r", "t", "i", "c", "l", "e", "_">>
          \o [k \in 1..(GlobalIdWidth - Len(digits)) |-> "0"] \o digits

AtPage == pdf_idx <= Len(ocr_data) /\ page_idx <= Len(ocr_data[pdf_idx].pages)

page_data == ocr_data[pdf_idx].pages[page_idx]

\* lines 221-222: the page is an error record
SkipErrorPage ==
    /\ main_pc = "pages" /\ AtPage
    /\ "error" \in DOMAIN page_data
    /\ page_idx' = page_idx + 1
    /\ UNCHANGED <<main_pc, ocr_data, pdf_idx, all_articles, article_counter, output>>
    /\ UNCHANGED <<groupVars, fnVars>>

\* lines 224-228: the call of group_into_articles with a fresh frame
StartPage ==
    /\ main_pc = "pages" /\ AtPage
    /\ "error" \notin DOMAIN page_data
    /\ text_blocks' = Get(page_data, "text_blocks", <<>>)
    /\ page_width' = Get(page_data, "image_width", DefaultImageWidth)
    /\ pc' = "start"
    /\ sorted_blocks' = <<>> /\ i' = 0 /\ articles' = <<>> /\ current_article' = <<>>
    /\ article_id' = 0 /\ result' = <<>>
    /\ main_pc' = "in_page"
    /\ UNCHANGED <<ocr_data, pdf_idx, page_idx, all_articles, article_counter, output, fnVars>>

\* lines 231-237 and 273-277: the metadata of the k-th article of the page
WithMetadata(article, k) ==
    [page_number |-> page_data.page_number,
     image_path |-> Get(page_data, "image_path", ""),
     extracted_date |-> extract_date_from_text(DateWindow(article)),
     source_pdf |-> ocr_data[pdf_idx].filename,
     global_article_id |-> FormatGlobalId(article_counter + k - 1)] @@ article

\* lines 230-239 and 272-279: group_into_articles has returned.  The list
\* page_data holds is the list the call wrote the column indices into.
PageDone ==
    /\ main_pc = "in_page" /\ pc = "done"
    /\ all_articles' = all_articles \o [k \in 1..Len(result) |-> WithMetadata(result[k], k)]
    /\ article_counter' = article_counter + Len(result)
    /\ ocr_data' = IF "text_blocks" \in DOMAIN page_data
                   THEN [ocr_data EXCEPT ![pdf_idx].pages[page_idx].text_blocks = text_blocks]
                   ELSE ocr_data
    /\ page_idx' = page_idx + 1
    /\ main_pc' = "pages"
    /\ pc' = "idle"
    /\ UNCHANGED <<text_blocks, page_width, sorted_blocks, i, articles, current_article, article_id, result>>
    /\ UNCHANGED <<pdf_idx, output, fnVars>>

\* line 265: the next document
NextPdf ==
    /\ main_pc = "pages"
    /\ pdf_idx <= Len(ocr_data) /\ page_idx > Len(ocr_data[pdf_idx].pages)
    /\ pdf_idx' = pdf_idx + 1
    /\ page_idx' = 1
    /\ UNCHANGED <<main_pc, ocr_data, all_articles, article_counter, output>>
    /\ UNCHANGED <<groupVars, fnVars>>

\* lines 281-288
SaveResults ==
    /\ main_pc = "pages"
    /\ pdf_idx > Len(ocr_data)
    /\ output' = <<[total_articles |-> Len(all_articles), articles |-> all_articles]>>
    /\ main_pc' = "saved"
    /\ UNCHANGED <<ocr_data, pdf_idx, page_idx, all_articles, article_counter>>
    /\ UNCHANGED <<groupVars, fnVars>>

\* lines 256-263: the OCR output of two documents is loaded
MainInit ==
    /\ NoGroup
    /\ NoCall
    /\ \E n \in 0..MaxPages : \E cut \in 0..n : \E bodies \in [1..n -> PageBodies] :
          ocr_data = << Pdf("a.pdf", SubSeq(bodies, 1, cut)),
                        Pdf("b.pdf", SubSeq(bodies, cut + 1, n)) >>
    /\ main_pc = "pages"
    /\ pdf_idx = 1
    /\ page_idx = 1
    /\ all_articles = <<>>
    /\ article_counter = 1
    /\ output = <<>>

MainNext ==
    \/ SkipErrorPage
    \/ StartPage
    \/ ReturnEmpty
    \/ Prepare
    \/ LoopStep
    \/ AddLast
    \/ Finish
    \/ Raise
    \/ PageDone
    \/ NextPdf
    \/ SaveResults

MainSpec == MainInit /\ [][MainNext]_vars

\* ---------------------------------------------------------------------------
\* is_likely_headline called on its own
\* ---------------------------------------------------------------------------

\* Texts on either side of each signal: 99 and 100 characters, with and
\* without capitals, with and without a keyword.
ClassifierTexts ==
    { TextEmpty,
      TextUpper,
      TextPlain,
      <<"F", "o", "u", "n", "d", " ", "D", "e", "a", "d">>,
      <<"t", "h", "e", " ", "t", "r", "i", "a", "l">>,
      Prefix(Repeat(<<"h", "e", " ", "s", "a", "i", "d", " ", "s", "o", " ">>, 10), 99),
      Prefix(Repeat(<<"h", "e", " ", "s", "a", "i", "d", " ", "s", "o", " ">>, 10), 100),
      Repeat(<<"H", "E", " ", "S", "A", "I", "D", " ", "S", "O", " ">>, 10),
      <<"t", "h", "e", " ", "p", "o", "l", "i", "c", "e", " ">> \o Filler,
      <<"P", "O", "L", "I", "C", "E", " ">> \o Repeat(<<"H", "E", " ", "S", "A", "I", "D", " ", "S", "O", " ">>, 10) }

ClassifierHeights == {0, 10, 13, 14, 20}

\* the heights of the fragments around the classified one
Neighbourhoods == { <<>>, <<0>>, <<10>>, <<10, 10, 10>>, <<10, 20>>, <<0, 0>> }

ClassifierCalls ==
    [block : { Frag(t, 0, 0, 4, h) : t \in ClassifierTexts, h \in ClassifierHeights },
     surrounding_blocks :
         { [k \in 1..Len(hs) |-> Frag(TextPlain, 0, 10 * k, 4, hs[k])] : hs \in Neighbourhoods }]

\* lines 59-91 for one call
Classify ==
    /\ fn_pc = "call"
    /\ fn_ret' = <<is_likely_headline(fn_args.block, fn_args.surrounding_blocks)>>
    /\ fn_pc' = "returned"
    /\ UNCHANGED <<fn_args, groupVars, mainVars, locals, world>>

ClassifierInit ==
    /\ NoGroup
    /\ NoMain
    /\ fn_pc = "call"
    /\ fn_args \in ClassifierCalls
    /\ fn_ret = <<>>
    /\ locals = <<>>
    /\ world = <<>>

ClassifierNext == Classify

ClassifierSpec == ClassifierInit /\ [][ClassifierNext]_vars

\* ---------------------------------------------------------------------------
\* detect_column_boundaries of preprocess.py (lines 110-218) and of
\* process_pdfs.py (lines 59-136).  The image operations of cv2 are not
\* modelled: a call is given what they hand to the arithmetic that follows,
\* the projection profile in preprocess.py and the Hough lines in
\* process_pdfs.py.
\* ---------------------------------------------------------------------------

\* preprocess.py line 297 and the default of process_pdfs.py line 59
ExpectedColumns == 5

\* sorted(set(...)) of a set of integers
SortedSeq(S) ==
    [j \in 1..Cardinality(S) |-> CHOOSE x \in S : Cardinality({ y \in S : y < x }) = j - 1]

Range(s) == { s[k] : k \in 1..Len(s) }

\* preprocess.py line 159: int(width / 100)
WindowSize(width) == width \div 100

\* preprocess.py lines 61-62: np.convolve(projection, kernel, mode='same') with
\* the kernel of window_size equal weights.  Entry x (0-based) is the mean of
\* the entries x + s - (window_size - 1) .. x + s, s = (window_size - 1) // 2,
\* that lie inside the array; the model keeps the sum, window_size times the
\* mean, which find_peaks normalises away.
smooth_projection(projection, window_size) ==
    LET s == (window_size - 1) \div 2
        inside(x) == { j \in (x + s - (window_size - 1))..(x + s) : j >= 0 /\ j < Len(projection) }
        RECURSIVE Sum(_)
        Sum(J) == IF J = {} THEN 0
                  ELSE LET j == CHOOSE j \in J : TRUE IN projection[j + 1] + Sum(J \ {j})
    IN  [k \in 1..Len(projection) |-> Sum(inside(k - 1))]

\* np.convolve raises ValueError for an empty kernel
SmoothRaises(window_size) == window_size = 0

\* min_peak_height = 0.2 as the fraction 1 / 5
MinPeakHeightInverse == 5

\* preprocess.py lines 77-92: the 0-based positions higher than both
\* neighbours whose normalised value (v - min) / (max - min) is above 0.2;
\* none when the profile is constant (lines 79-80)
LocalMaxima(projection) ==
    LET vals == Range(projection)
        hi == CHOOSE m \in vals : \A v \in vals : v <= m
        lo == CHOOSE m \in vals : \A v \in vals : v >= m
        at(x) == projection[x + 1]
    IN  { x \in 1..(Len(projection) - 2) :
            /\ hi > lo
            /\ at(x) > at(x - 1) /\ at(x) > at(x + 1)
            /\ MinPeakHeightInverse * (at(x) - lo) > hi - lo }

\* preprocess.py lines 65-107.  None is <<>>, a list of peaks p is <<p>>.
find_peaks(projection, expected_columns) ==
    LET peaks == LocalMaxima(projection)
        at(x) == projection[x + 1]
        expected_dividers == expected_columns - 1
        \* lines 98-103: the stable sort by height, tallest first, and its
        \* first expected_dividers entries
        before(q, p) == at(q) > at(p) \/ (at(q) = at(p) /\ q < p)
        top_peaks == { p \in peaks : Cardinality({ q \in peaks : before(q, p) }) < expected_dividers }
    IN  IF Range(projection) # {} /\ (\E u \in Range(projection), v \in Range(projection) : u # v)
        THEN IF Cardinality(peaks) >= expected_dividers - 1
             THEN <<SortedSeq(top_peaks)>>
             ELSE <<>>
        ELSE <<>>

\* preprocess.py line 209: peaks and len(peaks) >= expected_columns - 2
EnoughPeaks(peaks, expected_columns) ==
    peaks # <<>> /\ peaks[1] # <<>> /\ Len(peaks[1]) >= expected_columns - 2

\* preprocess.py line 217: int(width * i / expected_columns)
EvenDivision(width, expected_columns) ==
    [k \in 1..(expected_columns + 1) |-> (width * (k - 1)) \div expected_columns]

\* preprocess.py lines 159-218 for a projection profile
preprocess_detect_column_boundaries(projection, width, expected_columns) ==
    LET smoothed == smooth_projection(projection, WindowSize(width))
        peaks == find_peaks(smoothed, expected_columns)
    IN  IF EnoughPeaks(peaks, expected_columns)
        THEN SortedSeq({0} \cup Range(peaks[1]) \cup {width})
        ELSE EvenDivision(width, expected_columns)

MaxSlant == 20

ClusterDistance == 50

\* process_pdfs.py lines 97-103: the x of the lines that are nearly vertical;
\* a line is <<x1, x2>>
VerticalLines(lines) ==
    LET nearly(l) == (IF l[2] >= l[1] THEN l[2] - l[1] ELSE l[1] - l[2]) < MaxSlant
        kept == SelectSeq(lines, nearly)
    IN  [k \in 1..Len(kept) |-> (kept[k][1] + kept[k][2]) \div 2]

\* list.sort() of integers
RECURSIVE SortInts(_)
SortInts(s) ==
    IF s = <<>> THEN <<>>
    ELSE LET rest == SortInts(Tail(s))
             n == Cardinality({ k \in 1..Len(rest) : rest[k] <= Head(s) })
         IN  SubSeq(rest, 1, n) \o <<Head(s)>> \o SubSeq(rest, n + 1, Len(rest))

\* int(np.median(cluster)) of a sorted cluster
Median(cluster) ==
    LET n == Len(cluster)
    IN  IF n % 2 = 1 THEN cluster[(n + 1) \div 2]
        ELSE (cluster[n \div 2] + cluster[n \div 2 + 1]) \div 2

\* process_pdfs.py lines 108-120: from the k-th line on, cur the open cluster
RECURSIVE ClusterFrom(_, _, _, _)
ClusterFrom(xs, k, cur, out) ==
    IF k > Len(xs) THEN Append(out, Median(cur))
    ELSE IF xs[k] - cur[Len(cur)] < ClusterDistance
         THEN ClusterFrom(xs, k + 1, Append(cur, xs[k]), out)
         ELSE ClusterFrom(xs, k + 1, <<xs[k]>>, Append(out, Median(cur)))

\* process_pdfs.py lines 106-120 for a non-empty list
ClusteredLines(vertical_lines) ==
    LET xs == SortInts(vertical_lines)
    IN  ClusterFrom(xs, 2, <<xs[1]>>, <<>>)

\* variant: as many dividers as the columns need, no more
EnoughLines_exactly(clustered_lines, expected_columns) ==
    Len(clustered_lines) = expected_columns - 1

\* process_pdfs.py line 125
EnoughLines(clustered_lines, expected_columns) ==
    Len(clustered_lines) >= expected_columns - 1

\* process_pdfs.py lines 132-134
EqualBands(width, expected_columns) ==
    LET column_width == width \div expected_columns
    IN  [k \in 1..(expected_columns + 1) |->
           IF k = expected_columns + 1 THEN width ELSE (k - 1) * column_width]

\* process_pdfs.py lines 94-136 for the lines HoughLinesP returned
process_pdfs_detect_column_boundaries(lines, width, expected_columns) ==
    LET vertical_lines == VerticalLines(lines)
    IN  IF vertical_lines # <<>> /\ EnoughLines(ClusteredLines(vertical_lines), expected_columns)
        THEN SortedSeq({0} \cup Range(ClusteredLines(vertical_lines)) \cup {width})
        ELSE EqualBands(width, expected_columns)

\* --- the calls ---

SpikePositions == <<10, 30, 50, 70, 90>>

SpikeHeights == {0, 2, 3, 10}

\* the projection profile of a page of the given width whose divider lines,
\* all of one thickness, stand at SpikePositions with the heights hs
Projection(width, hs, thickness) ==
    [k \in 1..width |->
        IF \E n \in 1..Len(SpikePositions) :
               k - 1 >= SpikePositions[n] /\ k - 1 < SpikePositions[n] + thickness
        THEN hs[CHOOSE n \in 1..Len(SpikePositions) :
                   k - 1 >= SpikePositions[n] /\ k - 1 < SpikePositions[n] + thickness]
        ELSE 0]

\* page widths: narrower than the expected columns, narrower than the
\* smoothing needs, and wide
NarrowWidths == {3, 50}

ProjectionWidths == {102, 203}

ProjectionCalls ==
    { [detector |-> "preprocess", width |-> w, projection |-> Projection(w, hs, t)] :
          w \in ProjectionWidths, hs \in [1..Len(SpikePositions) -> SpikeHeights], t \in {1, 2} }
    \cup { [detector |-> "preprocess", width |-> w, projection |-> [k \in 1..w |-> 0]] :
               w \in NarrowWidths }

\* the lines HoughLinesP may return for a page 402 pixels wide: upright and
\* slightly slanted lines, a slanted one that is no divider, lines close enough
\* to be one divider
HoughLines ==
    << <<0, 0>>, <<20, 20>>, <<60, 64>>, <<100, 130>>, <<110, 110>>,
       <<170, 170>>, <<230, 230>>, <<292, 290>>, <<350, 350>> >>

LinesWidth == 402

\* the lines of the list whose index is in S, in the order of the list
Picked(S) ==
    LET idx == SortedSeq(S) IN [k \in 1..Len(idx) |-> HoughLines[idx[k]]]

LinesCalls ==
    { [detector |-> "process_pdfs", width |-> LinesWidth, lines |-> Picked(S)] :
          S \in SUBSET (1..Len(HoughLines)) }
    \cup { [detector |-> "process_pdfs", width |-> w, lines |-> <<>>] : w \in NarrowWidths }

\* preprocess.py lines 159-218
DetectPreprocess ==
    /\ fn_pc = "call"
    /\ fn_args.detector = "preprocess"
    /\ ~SmoothRaises(WindowSize(fn_args.width))
    /\ fn_ret' = preprocess_detect_column_boundaries(fn_args.projection, fn_args.width, ExpectedColumns)
    /\ fn_pc' = "returned"
    /\ UNCHANGED <<fn_args, groupVars, mainVars, locals, world>>

\* preprocess.py line 159: the exception of np.convolve leaves the function
DetectRaises ==
    /\ fn_pc = "call"
    /\ fn_args.detector = "preprocess"
    /\ SmoothRaises(WindowSize(fn_args.width))
    /\ fn_pc' = "raised"
    /\ UNCHANGED <<fn_args, fn_ret, groupVars, mainVars, locals, world>>

\* process_pdfs.py lines 94-136
DetectProcessPdfs ==
    /\ fn_pc = "call"
    /\ fn_args.detector = "process_pdfs"
    /\ fn_ret' = process_pdfs_detect_column_boundaries(fn_args.lines, fn_args.width, ExpectedColumns)
    /\ fn_pc' = "returned"
    /\ UNCHANGED <<fn_args, groupVars, mainVars, locals, world>>

ColumnsInit ==
    /\ NoGroup
    /\ NoMain
    /\ fn_pc = "call"
    /\ fn_args \in ProjectionCalls \cup LinesCalls
    /\ fn_ret = <<>>
    /\ locals = <<>>
    /\ world = <<>>

ColumnsNext ==
    \/ DetectPreprocess
    \/ DetectRaises
    \/ DetectProcessPdfs

ColumnsSpec == ColumnsInit /\ [][ColumnsNext]_vars

\* ---------------------------------------------------------------------------
\* the column assignment of group_into_articles (lines 103-108) on its own
\* ---------------------------------------------------------------------------

\* left edges and widths of fragments: left of the page, on the band edges of
\* a page 30 wide, across the right edge
AssignXs == {0 - 7, 0 - 2, 0 - 1, 0, 4, 7, 8, 9, 10, 14, 18, 19, 20, 26, 28, 29, 30, 33}

AssignWidths == {0, 3, 4}

AssignPageWidths == {30, 31}

AssignCalls ==
    [text_blocks : { <<Frag(TextPlain, x1, 0, w1, 10), Frag(TextPlain, x2, 10, w2, 10)>> :
                       x1 \in AssignXs, x2 \in AssignXs, w1 \in AssignWidths, w2 \in {4} },
     page_width : AssignPageWidths]

\* lines 104-108 for one fragment list
AssignAll ==
    /\ fn_pc = "call"
    /\ fn_ret' = AssignColumns(fn_args.text_blocks, fn_args.page_width)
    /\ fn_pc' = "returned"
    /\ UNCHANGED <<fn_args, groupVars, mainVars, locals, world>>

AssignInit ==
    /\ NoGroup
    /\ NoMain
    /\ fn_pc = "call"
    /\ fn_args \in AssignCalls
    /\ fn_ret = <<>>
    /\ locals = <<>>
    /\ world = <<>>

AssignNext == AssignAll

AssignSpec == AssignInit /\ [][AssignNext]_vars

\* ---------------------------------------------------------------------------
\* the OCR stages that read a crop of the page and emit page coordinates
\* (process_pdfs.py, process_pdfs_tesseract.py, process_images_surya_batch.py,
\* process_pdfs_gemini.py)
\* ---------------------------------------------------------------------------

\* positions are counted in half pixels, so that the fractional positions a
\* detector reports are integers here
PerPixel == 2

Px(n) == n * PerPixel

\* int(v): truncation towards zero
IntOf(v) == IF v >= 0 THEN Px(v \div PerPixel) ELSE 0 - Px((0 - v) \div PerPixel)

ColumnMargin == 10

\* process_pdfs.py split_into_columns: the records of the crops, the pixels
\* themselves left out; every crop has the full height of the page
split_into_columns(image_width, boundaries) ==
    [c \in 1..(Len(boundaries) - 1) |->
        LET x_start == boundaries[c]
            x_end == boundaries[c + 1]
            x_start_with_margin == Max(0, x_start - Px(ColumnMargin))
            x_end_with_margin == Min(image_width, x_end + Px(ColumnMargin))
        IN  [x_offset |-> x_start_with_margin,
             column_index |-> c - 1,
             width |-> x_end_with_margin - x_start_with_margin]]

\* process_pdfs.py process_column_ocr, lines 199-221, for one recognised line
\* whose polygon is bbox
process_column_ocr(column_data, bbox) ==
    LET x_offset == column_data.x_offset
        adjusted_bbox == [p \in 1..Len(bbox) |-> <<bbox[p][1] + x_offset, bbox[p][2]>>]
        x_coords == [p \in 1..Len(bbox) |-> adjusted_bbox[p][1]]
        y_coords == [p \in 1..Len(bbox) |-> adjusted_bbox[p][2]]
    IN  [bbox |-> [x |-> MinOf(x_coords),
                   y |-> MinOf(y_coords),
                   width |-> MaxOf(x_coords) - MinOf(x_coords),
                   height |-> MaxOf(y_coords) - MinOf(y_coords)],
         polygon |-> adjusted_bbox,
         column |-> column_data.column_index]

\* process_pdfs_tesseract.py lines 66-81 for word i of data
tesseract_entry(data, snip) ==
    LET x_off == snip.x_offset
        y_off == snip.y_offset
    IN  [col |-> snip.column,
         bbox |-> <<IntOf(data.left + x_off), IntOf(data.top + y_off),
                    IntOf(data.width), IntOf(data.height)>>]

\* variant: the top edge of the crop is not added
surya_entry_noTopOffset(bbox, meta) ==
    [col |-> meta.column,
     bbox |-> <<IntOf(bbox[1] + meta.x_offset), IntOf(bbox[2]),
                IntOf(bbox[3] - bbox[1]), IntOf(bbox[4] - bbox[2])>>]

\* process_images_surya_batch.py process_batch, lines 108-130, for one text line
surya_entry(bbox, meta) ==
    LET x_off == meta.x_offset
        y_off == meta.y_offset
        x1 == bbox[1]
        y1 == bbox[2]
        x2 == bbox[3]
        y2 == bbox[4]
        real_x == x1 + x_off
        real_y == y1 + y_off
        width == x2 - x1
        height == y2 - y1
    IN  [col |-> meta.column,
         bbox |-> <<IntOf(real_x), IntOf(real_y), IntOf(width), IntOf(height)>>]

\* process_pdfs_gemini.py main, lines 185-201, for one block of gemini_ocr
gemini_block(block, snip) ==
    LET real_x == block.x + snip.x_offset
        real_y == block.y + snip.y_offset
        real_w == block.width
        real_h == block.height
    IN  [bbox |-> [x |-> real_x, y |-> real_y, width |-> real_w, height |-> real_h],
         column |-> snip.column]

\* boxes inside a crop, on and between whole pixels
LocalXs == {0, 3, 8, 21}

LocalYs == {0, 5, 12}

LocalWidths == {4, 7}

LocalHeights == {2, 3}

LocalBoxes == [x : LocalXs, y : LocalYs, width : LocalWidths, height : LocalHeights]

\* Tesseract reports whole pixels
WholeBoxes == { [x |-> Px(b.x), y |-> Px(b.y), width |-> Px(b.width), height |-> Px(b.height)] :
                b \in LocalBoxes }

\* the four corners of a box, the upper edge pushed right by slant
Polygon(b, slant) ==
    << <<b.x + slant, b.y>>, <<b.x + b.width + slant, b.y>>,
       <<b.x + b.width, b.y + b.height>>, <<b.x, b.y + b.height>> >>

Slants == {0, 1}

\* snippet records of all_metadata.json: crops at the page origin and inside the page
Snips == [x_offset : {Px(0), Px(15)}, y_offset : {Px(0), Px(40)}, column : {1}]

OffsetImageWidth == Px(60)

\* column boundaries nearer to the left edge than the margin, and farther
OffsetBoundaries == { <<Px(b), Px(30), Px(55)>> : b \in {0, 4, 10, 25} }

OffsetCalls ==
    [engine : {"paddle"}, boundaries : OffsetBoundaries, col : {1, 2},
     box : LocalBoxes, slant : Slants]
    \cup [engine : {"tesseract"}, snip : Snips, box : WholeBoxes]
    \cup [engine : {"surya", "gemini"}, snip : Snips, box : LocalBoxes]

\* process_pdfs.py: the page is split and one line of one column is recognised
OcrPaddle ==
    /\ fn_pc = "call"
    /\ fn_args.engine = "paddle"
    /\ LET columns == split_into_columns(OffsetImageWidth, fn_args.boundaries)
       IN  fn_ret' = process_column_ocr(columns[fn_args.col],
                                        Polygon(fn_args.box, fn_args.slant))
    /\ fn_pc' = "returned"
    /\ UNCHANGED <<fn_args, groupVars, mainVars, locals, world>>

OcrTesseract ==
    /\ fn_pc = "call"
    /\ fn_args.engine = "tesseract"
    /\ LET b == fn_args.box
       IN  fn_ret' = tesseract_entry([left |-> b.x, top |-> b.y, width |-> b.width,
                                      height |-> b.height], fn_args.snip)
    /\ fn_pc' = "returned"
    /\ UNCHANGED <<fn_args, groupVars, mainVars, locals, world>>

OcrSurya ==
    /\ fn_pc = "call"
    /\ fn_args.engine = "surya"
    /\ LET b == fn_args.box
       IN  fn_ret' = surya_entry(<<b.x, b.y, b.x + b.width, b.y + b.height>>, fn_args.snip)
    /\ fn_pc' = "returned"
    /\ UNCHANGED <<fn_args, groupVars, mainVars, locals, world>>

OcrGemini ==
    /\ fn_pc = "call"
    /\ fn_args.engine = "gemini"
    /\ fn_ret' = gemini_block(fn_args.box, fn_args.snip)
    /\ fn_pc' = "returned"
    /\ UNCHANGED <<fn_args, groupVars, mainVars, locals, world>>

OffsetInit ==
    /\ NoGroup
    /\ NoMain
    /\ fn_pc = "call"
    /\ fn_args \in OffsetCalls
    /\ fn_ret = <<>>
    /\ locals = <<>>
    /\ world = <<>>

OffsetNext ==
    \/ OcrPaddle
    \/ OcrTesseract
    \/ OcrSurya
    \/ OcrGemini

OffsetSpec == OffsetInit /\ [][OffsetNext]_vars

\* ---------------------------------------------------------------------------
\* main() of process_images_surya_batch.py: the batching loop
\* ---------------------------------------------------------------------------

BATCH_SIZE == 4

MaxSnippets == 6

\* a snippet list: for each snippet whether load_image_safe returns an image
SnippetLists == UNION { [1..n -> BOOLEAN] : n \in 0..MaxSnippets }

total_snippets == Len(fn_args)

\* lines 226-228: nothing to process
NoSnippets ==
    /\ fn_pc = "surya_start"
    /\ total_snippets = 0
    /\ fn_pc' = "done"
    /\ UNCHANGED <<fn_args, fn_ret, groupVars, mainVars, locals, world>>

\* lines 248-251: the output file is opened and the loop variables are set
OpenOutput ==
    /\ fn_pc = "surya_start"
    /\ total_snippets # 0
    /\ locals' = [idx |-> 0, batch_images |-> <<>>, processed |-> 0]
    /\ world' = [batches |-> <<>>]
    /\ fn_pc' = "surya_loop"
    /\ UNCHANGED <<fn_args, fn_ret, groupVars, mainVars>>

\* lines 253-257: the image of snippet idx does not load and the iteration ends
LoadFails ==
    /\ fn_pc = "surya_loop"
    /\ locals.idx < total_snippets
    /\ ~fn_args[locals.idx + 1]
    /\ locals' = [locals EXCEPT !.idx = @ + 1]
    /\ UNCHANGED <<fn_pc, fn_args, fn_ret, groupVars, mainVars, world>>

\* lines 253-263: the image loads and the batch is neither full nor the last
Collect ==
    /\ fn_pc = "surya_loop"
    /\ locals.idx < total_snippets
    /\ fn_args[locals.idx + 1]
    /\ LET batch_images == Append(locals.batch_images, locals.idx)
       IN  /\ ~(Len(batch_images) >= BATCH_SIZE \/ locals.idx = total_snippets - 1)
           /\ locals' = [locals EXCEPT !.idx = @ + 1, !.batch_images = batch_images]
    /\ UNCHANGED <<fn_pc, fn_args, fn_ret, groupVars, mainVars, world>>

\* lines 253-299: the image loads and the batch goes to process_batch
CollectAndProcess ==
    /\ fn_pc = "surya_loop"
    /\ locals.idx < total_snippets
    /\ fn_args[locals.idx + 1]
    /\ LET batch_images == Append(locals.batch_images, locals.idx)
       IN  /\ Len(batch_images) >= BATCH_SIZE \/ locals.idx = total_snippets - 1
           /\ batch_images # <<>>
           /\ world' = [world EXCEPT !.batches = Append(@, batch_images)]
           /\ locals' = [idx |-> locals.idx + 1,
                         batch_images |-> <<>>,
                         processed |-> locals.processed + Len(batch_images)]
    /\ UNCHANGED <<fn_pc, fn_args, fn_ret, groupVars, mainVars>>

\* lines 313-315: the list is exhausted
SuryaDone ==
    /\ fn_pc = "surya_loop"
    /\ locals.idx = total_snippets
    /\ fn_pc' = "done"
    /\ UNCHANGED <<fn_args, fn_ret, groupVars, mainVars, locals, world>>

SuryaInit ==
    /\ NoGroup
    /\ NoMain
    /\ fn_pc = "surya_start"
    /\ fn_args \in SnippetLists
    /\ fn_ret = <<>>
    /\ locals = <<>>
    /\ world = <<>>

SuryaNext ==
    \/ NoSnippets
    \/ OpenOutput
    \/ LoadFails
    \/ Collect
    \/ CollectAndProcess
    \/ SuryaDone

SuryaSpec == SuryaInit /\ [][SuryaNext]_vars

\* ---------------------------------------------------------------------------
\* gemini_ocr / fallback_text_extraction of process_pdfs_gemini.py
\* ---------------------------------------------------------------------------

MaxRetries == 3

RequiredKeys == {"text", "x", "y", "width", "height"}

GeminiBlock(text, x, y) == [text |-> text, x |-> x, y |-> y, width |-> 9, height |-> 3]

\* what one structured request can come back with: an exception of the API,
\* a text that is no JSON, JSON that is no array, an array with a block that
\* lacks a key, and arrays that validate, the empty one among them
Responses ==
    { [kind |-> "api_error", type |-> "none", items |-> <<>>],
      [kind |-> "not_json", type |-> "none", items |-> <<>>],
      [kind |-> "json", type |-> "dict", items |-> <<>>],
      [kind |-> "json", type |-> "list",
       items |-> <<GeminiBlock(TextPlain, 1, 2), [text |-> TextUpper, x |-> 1, y |-> 6, width |-> 9]>>],
      [kind |-> "json", type |-> "list", items |-> <<>>],
      [kind |-> "json", type |-> "list", items |-> <<GeminiBlock(TextPlain, 1, 2)>>],
      [kind |-> "json", type |-> "list",
       items |-> <<GeminiBlock(TextUpper, 0, 0), GeminiBlock(TextPlain, 0, 5)>>] }

\* lines 70-84: the response is read and parsed without an exception
Parses(response) == response.kind = "json"

\* lines 86-93: the parsed value is an array whose blocks have every key
Validates(response) ==
    /\ response.type = "list"
    /\ \A k \in 1..Len(response.items) : RequiredKeys \subseteq DOMAIN response.items[k]

DefaultConfidence == 90

\* lines 91-94: block['confidence'] = 0.90, in hundredths
WithConfidence(block) ==
    [key \in DOMAIN block \cup {"confidence"} |->
        IF key = "confidence" THEN DefaultConfidence ELSE block[key]]

Confident(items) == [k \in 1..Len(items) |-> WithConfidence(items[k])]

FallbackConfidence == 85

\* what the plain request of the fallback can come back with
FallbackOutcomes == {"text", "blank", "raises"}

\* fallback_text_extraction for an image of the given size
fallback_text_extraction(outcome, width, height) ==
    IF outcome = "text"
    THEN << [text |-> TextPlain, x |-> 0, y |-> 0, width |-> width, height |-> height,
             confidence |-> FallbackConfidence] >>
    ELSE <<>>

\* variant: no attempt is taken for the last one
LastAttempt_never(attempt, max_retries) == FALSE

LastAttempt(attempt, max_retries) == attempt = max_retries - 1

GeminiCalls == [max_retries : 0..MaxRetries, width : {40}, height : {60}]

\* lines 53-67: the image is opened and the prompt is built
GeminiOpen ==
    /\ fn_pc = "gemini_start"
    /\ locals' = [attempt |-> 0]
    /\ world' = [requests |-> <<>>, fallbacks |-> <<>>]
    /\ fn_pc' = "gemini_loop"
    /\ UNCHANGED <<fn_args, fn_ret, groupVars, mainVars>>

\* lines 68-109: one pass of the retry loop
GeminiAttempt ==
    /\ fn_pc = "gemini_loop"
    /\ locals.attempt < fn_args.max_retries
    /\ \E response \in Responses :
        /\ world' = [world EXCEPT !.requests = Append(@, response)]
        /\ IF Parses(response) /\ Validates(response)
           THEN /\ fn_ret' = Confident(response.items)
                /\ fn_pc' = "returned"
                /\ UNCHANGED locals
           ELSE IF LastAttempt(locals.attempt, fn_args.max_retries)
                THEN /\ fn_pc' = "gemini_fallback"
                     /\ UNCHANGED <<fn_ret, locals>>
                ELSE /\ locals' = [locals EXCEPT !.attempt = @ + 1]
                     /\ UNCHANGED <<fn_pc, fn_ret>>
    /\ UNCHANGED <<fn_args, groupVars, mainVars>>

\* lines 102 and 107: the result of fallback_text_extraction is returned
GeminiFallback ==
    /\ fn_pc = "gemini_fallback"
    /\ \E outcome \in FallbackOutcomes :
        /\ world' = [world EXCEPT !.fallbacks = Append(@, outcome)]
        /\ fn_ret' = fallback_text_extraction(outcome, fn_args.width, fn_args.height)
    /\ fn_pc' = "returned"
    /\ UNCHANGED <<fn_args, groupVars, mainVars, locals>>

\* line 111: the loop ended without a return
GeminiLoopEnds ==
    /\ fn_pc = "gemini_loop"
    /\ locals.attempt >= fn_args.max_retries
    /\ fn_ret' = <<>>
    /\ fn_pc' = "returned"
    /\ UNCHANGED <<fn_args, groupVars, mainVars, locals, world>>

GeminiInit ==
    /\ NoGroup
    /\ NoMain
    /\ fn_pc = "gemini_start"
    /\ fn_args \in GeminiCalls
    /\ fn_ret = <<"unset">>
    /\ locals = <<>>
    /\ world = <<>>

GeminiNext ==
    \/ GeminiOpen
    \/ GeminiAttempt
    \/ GeminiFallback
    \/ GeminiLoopEnds

\* the call runs on one thread and its sleeps are finite: a step that can be
\* taken is taken
GeminiSpec == GeminiInit /\ [][GeminiNext]_vars /\ WF_vars(GeminiNext)

\* ---------------------------------------------------------------------------
\* run_pipeline.py and the files its six scripts hand to each other
\* ---------------------------------------------------------------------------

Engines == {"tesseract", "paddleocr", "gemini", "surya"}

\* run_pipeline.py lines 57-65
OcrScript(ocr_engine) ==
    IF ocr_engine = "gemini" THEN "process_pdfs_gemini.py"
    ELSE IF ocr_engine = "paddleocr" THEN "process_pdfs.py"
    ELSE IF ocr_engine = "surya" THEN "process_images_surya_batch.py"
    ELSE "process_pdfs_tesseract.py"

\* run_pipeline.py lines 68-75
Scripts(ocr_engine) ==
    <<"preprocess.py", OcrScript(ocr_engine), "segment_articles.py", "tag_articles.py",
      "generate_timeline.py", "analyze_text.py">>

\* the file, or directory, main() of a script looks for before it does anything
Reads(script) ==
    CASE script = "preprocess.py" -> "pdfs"
      [] script = "process_pdfs.py" -> "pdfs"
      [] script \in {"process_pdfs_gemini.py", "process_images_surya_batch.py",
                     "process_pdfs_tesseract.py"} -> "data/preprocessed/all_metadata.json"
      [] script = "segment_articles.py" -> "data/raw/ocr_output.json"
      [] script = "tag_articles.py" -> "data/processed/articles.json"
      [] script \in {"generate_timeline.py", "analyze_text.py"} ->
             "data/processed/tagged_articles.json"

\* the file main() of a script saves its results to
Writes(script) ==
    CASE script = "preprocess.py" -> "data/preprocessed/all_metadata.json"
      [] script = "process_pdfs.py" -> "data/raw/ocr_output.json"
      [] script = "process_pdfs_gemini.py" -> "data/raw/ocr_output.json"
      [] script = "process_images_surya_batch.py" -> "data/raw/ocr_output.jsonl"
      [] script = "process_pdfs_tesseract.py" -> "data/raw/ocr_output_tesseract.jsonl"
      [] script = "segment_articles.py" -> "data/processed/articles.json"
      [] script = "tag_articles.py" -> "data/processed/tagged_articles.json"
      [] script = "generate_timeline.py" -> "data/processed/timeline.json"
      [] script = "analyze_text.py" -> "data/processed/text_analysis.json"

\* the exit status of a script that does not find what it reads: process_pdfs.py
\* calls sys.exit(1), every other main() prints a message and returns
MissingStatus(script) == IF script = "process_pdfs.py" THEN 1 ELSE 0

\* the statuses an uncaught exception or a kill can end a script with; 0 for none
Crashes == {0, 1, 2}

\* one run of a script on the files there are: its exit status and the files
\* afterwards. A file carries where its content comes from: "fresh" from the
\* pdfs of this run, "stale" from an earlier run
RunOf(script, files, crash) ==
    IF crash # 0
    THEN [status |-> crash, files |-> files]
    ELSE IF Reads(script) \notin DOMAIN files
         THEN [status |-> MissingStatus(script), files |-> files]
         ELSE [status |-> 0,
               files |-> [f \in DOMAIN files \cup {Writes(script)} |->
                            IF f = Writes(script) THEN files[Reads(script)] ELSE files[f]]]

\* variant: only status 1 counts as a failure
Failed_onlyOne(status) == status = 1

\* subprocess.run(check=True) raises CalledProcessError
Failed(status) == status # 0

\* what is on disk before the run: the pdfs or none, and what an earlier run left
StartFiles ==
    { [f \in present |-> IF f = "pdfs" THEN "fresh" ELSE "stale"] :
        present \in SUBSET {"pdfs", "data/raw/ocr_output.json", "data/processed/articles.json"} }

PipelineCalls == [ocr_engine : Engines, files : StartFiles]

\* run_pipeline.py lines 36-77: arguments, header, the list of scripts
SelectScripts ==
    /\ fn_pc = "pipeline_start"
    /\ locals' = [scripts |-> Scripts(fn_args.ocr_engine), k |-> 1, success_count |-> 0]
    /\ world' = [files |-> fn_args.files, started |-> <<>>, statuses |-> <<>>,
                 banner |-> FALSE]
    /\ fn_pc' = "pipeline_loop"
    /\ UNCHANGED <<fn_args, fn_ret, groupVars, mainVars>>

\* lines 79-85: run_script for the next script, and sys.exit(1) when it failed
RunScript ==
    /\ fn_pc = "pipeline_loop"
    /\ locals.k <= Len(locals.scripts)
    /\ \E crash \in Crashes :
        LET script == locals.scripts[locals.k]
            run == RunOf(script, world.files, crash)
        IN  /\ world' = [world EXCEPT !.files = run.files,
                                      !.started = Append(@, script),
                                      !.statuses = Append(@, run.status)]
            /\ IF Failed(run.status)
               THEN /\ fn_ret' = <<1>>
                    /\ fn_pc' = "exited"
                    /\ UNCHANGED locals
               ELSE /\ locals' = [locals EXCEPT !.k = @ + 1, !.success_count = @ + 1]
                    /\ UNCHANGED <<fn_pc, fn_ret>>
    /\ UNCHANGED <<fn_args, groupVars, mainVars>>

\* lines 87-97: the loop is through and the banner is printed
PipelineComplete ==
    /\ fn_pc = "pipeline_loop"
    /\ locals.k > Len(locals.scripts)
    /\ world' = [world EXCEPT !.banner = TRUE]
    /\ fn_ret' = <<0>>
    /\ fn_pc' = "exited"
    /\ UNCHANGED <<fn_args, groupVars, mainVars, locals>>

PipelineInit ==
    /\ NoGroup
    /\ NoMain
    /\ fn_pc = "pipeline_start"
    /\ fn_args \in PipelineCalls
    /\ fn_ret = <<>>
    /\ locals = <<>>
    /\ world = <<>>

PipelineNext ==
    \/ SelectScripts
    \/ RunScript
    \/ PipelineComplete

PipelineSpec == PipelineInit /\ [][PipelineNext]_vars

\* ---------------------------------------------------------------------------
\* generate_timeline.py: calculate_time_lag and lines 220-234 of
\* create_shawville_events
\* ---------------------------------------------------------------------------

\* an ISO date string "YYYY-MM-DD" as its three numbers
Date(y, m, d) == [year |-> y, month |-> m, day |-> d]

\* the order of the zero-padded strings
DateLeq(a, b) ==
    \/ a.year < b.year
    \/ a.year = b.year /\ a.month < b.month
    \/ a.year = b.year /\ a.month = b.month /\ a.day <= b.day

\* generate_timeline.py lines 12-84: id, date and type of the London events
LONDON_EVENTS ==
    << [id |-> "london_01", date |-> Date(1888, 8, 31), type |-> "murder"],
       [id |-> "london_02", date |-> Date(1888, 9, 8), type |-> "murder"],
       [id |-> "london_03", date |-> Date(1888, 9, 30), type |-> "murder"],
       [id |-> "london_04", date |-> Date(1888, 9, 30), type |-> "murder"],
       [id |-> "london_05", date |-> Date(1888, 11, 9), type |-> "murder"],
       [id |-> "london_06", date |-> Date(1888, 9, 27), type |-> "event"],
       [id |-> "london_07", date |-> Date(1888, 10, 1), type |-> "event"] >>

IsLeap(y) == y % 4 = 0 /\ (y % 100 # 0 \/ y % 400 = 0)

DaysInMonth(y, m) ==
    IF m = 2 THEN (IF IsLeap(y) THEN 29 ELSE 28)
    ELSE IF m \in {4, 6, 9, 11} THEN 30 ELSE 31

\* datetime.fromisoformat accepts the date
ValidDate(date) ==
    /\ date.year \in 1..9999
    /\ date.month \in 1..12
    /\ date.day \in 1..DaysInMonth(date.year, date.month)

RECURSIVE DaysBeforeMonth(_, _)
DaysBeforeMonth(y, m) == IF m = 1 THEN 0 ELSE DaysBeforeMonth(y, m - 1) + DaysInMonth(y, m - 1)

\* the day number datetime subtracts
ToOrdinal(date) ==
    LET y == date.year - 1
    IN  y * 365 + (y \div 4) - (y \div 100) + (y \div 400)
        + DaysBeforeMonth(date.year, date.month) + date.day

\* calculate_time_lag: <<>> for None
calculate_time_lag(london_date, shawville_date) ==
    IF ValidDate(london_date) /\ ValidDate(shawville_date)
    THEN <<ToOrdinal(shawville_date) - ToOrdinal(london_date)>>
    ELSE <<>>

\* line 230, `if lag:`: None and 0 are both false
Truthy(lag) == lag # <<>> /\ lag[1] # 0

\* lines 223-226
preceding_murders(date_iso) ==
    SelectSeq(LONDON_EVENTS, LAMBDA e : e.type = "murder" /\ DateLeq(e.date, date_iso))

\* max(events, key=date): the first of the events with the greatest date
MaxByDate(events) ==
    LET k == CHOOSE k \in 1..Len(events) :
                 /\ \A j \in 1..Len(events) : DateLeq(events[j].date, events[k].date)
                 /\ \A j \in 1..(k - 1) : events[j].date # events[k].date
    IN  events[k]

\* lines 207-232 for one article; date_iso is <<>> for None
shawville_event(article, date_iso) ==
    LET event == [id |-> article.global_article_id, date |-> date_iso,
                  type |-> "publication", category |-> "shawville"]
    IN  IF date_iso = <<>> \/ preceding_murders(date_iso[1]) = <<>>
        THEN event
        ELSE LET closest_murder == MaxByDate(preceding_murders(date_iso[1]))
                 lag == calculate_time_lag(closest_murder.date, date_iso[1])
             IN  IF Truthy(lag)
                 THEN [key \in DOMAIN event \cup {"time_lag_days", "related_london_event"} |->
                          IF key = "time_lag_days" THEN lag[1]
                          ELSE IF key = "related_london_event" THEN closest_murder.id
                          ELSE event[key]]
                 ELSE event

\* the dates an article can resolve to: around the murders, a year later, and
\* days no month has
TimelineDays == {1, 8, 9, 29, 30, 31}

TimelineDates ==
    { Date(y, m, d) : y \in {1888, 1889}, m \in {2, 8, 9, 10, 11}, d \in TimelineDays }

TimelineCalls ==
    [is_whitechapel : BOOLEAN, global_article_id : {"article_001"},
     date_iso : {<<>>} \cup { <<date>> : date \in TimelineDates }]

\* create_shawville_events for a list of one article
CreateEvents ==
    /\ fn_pc = "call"
    /\ fn_ret' = IF fn_args.is_whitechapel
                 THEN <<shawville_event(fn_args, fn_args.date_iso)>>
                 ELSE <<>>
    /\ fn_pc' = "returned"
    /\ UNCHANGED <<fn_args, groupVars, mainVars, locals, world>>

TimelineInit ==
    /\ NoGroup
    /\ NoMain
    /\ fn_pc = "call"
    /\ fn_args \in TimelineCalls
    /\ fn_ret = <<>>
    /\ locals = <<>>
    /\ world = <<>>

TimelineNext == CreateEvents

TimelineSpec == TimelineInit /\ [][TimelineNext]_vars

Init ==
    /\ pc = "start"
    /\ \E n \in 0..MaxBlocks : text_blocks \in [1..n -> Blocks]
    /\ page_width \in PageWidths
    /\ sorted_blocks = <<>>
    /\ i = 0
    /\ articles = <<>>
    /\ current_article = <<>>
    /\ article_id = 0
    /\ result = <<>>
    /\ NoMain
    /\ NoCall

Next ==
    \/ ReturnEmpty
    \/ Prepare
    \/ LoopStep
    \/ AddLast
    \/ Finish

Spec == Init /\ [][Next]_vars

(***************************************************************************)
(* Properties                                                              *)
(***************************************************************************)
\* the member fragments of a list of (not yet post-processed) articles, in order
RECURSIVE AllMembers(_)
AllMembers(as) ==
    IF as = <<>> THEN <<>> ELSE Head(as).blocks \o AllMembers(Tail(as))

Occurrences(b, s) == Cardinality({ k \in 1..Len(s) : s[k] = b })

RECURSIVE SumNumBlocks(_)
SumNumBlocks(as) ==
    IF as = <<>> THEN 0 ELSE Head(as).num_blocks + SumNumBlocks(Tail(as))

\* closed articles followed by the open one, while the fragments are grouped
GroupedSoFar == IF pc = "loop" THEN articles \o current_article ELSE articles

\* C1 (partition totality): when the loop has closed the last article every
\* input fragment occurs among the members of the articles exactly as often as
\* in the input (none dropped, none duplicated), and the num_blocks of the
\* returned articles add up to the number of input fragments.
C1_PartitionTotality ==
    [][pc = "post" =>
         /\ Len(AllMembers(articles)) = Len(text_blocks)
         /\ \A k \in 1..Len(text_blocks) :
               Occurrences(text_blocks[k], AllMembers(articles)) = Occurrences(text_blocks[k], text_blocks)
         /\ SumNumBlocks(articles') = Len(text_blocks)]_vars

C1_Witness ==
    /\ pc = "done"
    /\ Len(text_blocks) >= 4
    /\ Len(result) = 2
    /\ \E k \in 1..Len(result) : result[k].num_blocks >= 2

SameKey(a, b) == a.column = b.column /\ a.bbox.y = b.bbox.y

\* the elements of s with the sort key of b, in the order of s
WithKeyOf(b, s) == SelectSeq(s, LAMBDA e : SameKey(e, b))

\* C2 (order preservation): the members of the articles, concatenated in
\* output order, are the fragments consumed so far in the order of the input
\* sorted by (column, y): ascending keys, equal keys in input order.
C2_OrderPreservation ==
    pc \in {"loop", "post"} =>
        /\ AllMembers(GroupedSoFar) = SubSeq(sorted_blocks, 1, i - 1)
        /\ Len(sorted_blocks) = Len(text_blocks)
        /\ \A j, k \in 1..Len(sorted_blocks) :
              j < k => \/ sorted_blocks[j].column < sorted_blocks[k].column
                       \/ /\ sorted_blocks[j].column = sorted_blocks[k].column
                          /\ sorted_blocks[j].bbox.y <= sorted_blocks[k].bbox.y
        /\ \A k \in 1..Len(text_blocks) :
              WithKeyOf(text_blocks[k], sorted_blocks) = WithKeyOf(text_blocks[k], text_blocks)

\* an input that is not already in sorted order, grouped into several articles
C2_Witness ==
    /\ pc = "post"
    /\ sorted_blocks # text_blocks
    /\ Len(articles) >= 2
    /\ \E k \in 1..Len(articles) : Len(articles[k].blocks) >= 2

\* C3 (column-break invariant): all members of an article, open or closed,
\* have the column index recorded in the article's column field, and the
\* returned article keeps that field.
C3_ColumnBreak ==
    [][/\ pc \in {"loop", "post"} =>
            \A k \in 1..Len(GroupedSoFar) :
                \A j \in 1..Len(GroupedSoFar[k].blocks) :
                    GroupedSoFar[k].blocks[j].column = GroupedSoFar[k].column
       /\ pc = "post" =>
            \A k \in 1..Len(articles) :
                \A j \in 1..Len(articles[k].blocks) :
                    articles'[k].column = articles[k].blocks[j].column]_vars

\* two consecutive articles in different columns whose boundary fragments are
\* not separated by a vertical gap: only the column change closes the first
C3_Witness ==
    /\ pc = "done"
    /\ \E k \in 2..Len(sorted_blocks) :
          /\ sorted_blocks[k].column # sorted_blocks[k - 1].column
          /\ sorted_blocks[k].bbox.y <= sorted_blocks[k - 1].bbox.y
    /\ Len(result) >= 2
    /\ \E k \in 1..(Len(result) - 1) : result[k].column # result[k + 1].column

(***************************************************************************)
(* Break rules.  In a state of the loop with i > 1 the fragment consumed    *)
(* last is sorted_blocks[i - 1]; it opened a new article iff it is the only *)
(* member of the open article.                                             *)
(***************************************************************************)
LastConsumed == sorted_blocks[i - 1]

BeforeLast == sorted_blocks[i - 2]

OpenedNewArticle == Len(current_article[1].blocks) = 1

\* the classifier's verdict on the fragment at position k of the sorted stream
ClassifiedHeadline(k) == is_likely_headline(sorted_blocks[k], Surrounding(sorted_blocks, k))

\* top of b farther below the bottom of p than twice the mean of their heights
GapAboveThreshold(b, p) ==
    b.bbox.y - (p.bbox.y + p.bbox.height) > b.bbox.height + p.bbox.height

\* a fragment f of the input after the column assignment gave it column c
InColumn(f, c) == [f EXCEPT !.column = c]

C5_GapBreak ==
    /\ (pc = "loop" /\ i > 2 /\ GapAboveThreshold(LastConsumed, BeforeLast)) =>
          /\ OpenedNewArticle
          /\ Len(articles) >= 1
          /\ LET closed == articles[Len(articles)]
             IN  closed.blocks[Len(closed.blocks)] = BeforeLast
    /\ (/\ pc = "done"
        /\ sorted_blocks = << InColumn(Frag(TextPlain, 0, 0, 4, 10), 0),
                              InColumn(Frag(TextPlain, 0, 300, 4, 10), 0) >>) =>
          /\ Len(result) = 2
          /\ result[1].num_blocks = 1 /\ result[2].num_blocks = 1

C5_Witness ==
    /\ pc = "done"
    /\ sorted_blocks = << InColumn(Frag(TextPlain, 0, 0, 4, 10), 0),
                          InColumn(Frag(TextPlain, 0, 300, 4, 10), 0) >>
    /\ Len(result) = 2

\* C6 (maximality): a fragment opens a new article only if it is classified
\* as a headline, changes the column or lies beyond the gap threshold; when
\* none of the three holds it becomes the last member of the open article.
\* Three fragments of height 10 at y = 0, 10, 20 in one column followed by one
\* in the next column give exactly two articles, of three and of one fragment.
C6_Maximality ==
    /\ (pc = "loop" /\ i > 2) =>
          LET breakCondition ==
                \/ ClassifiedHeadline(i - 1)
                \/ LastConsumed.column # BeforeLast.column
                \/ GapAboveThreshold(LastConsumed, BeforeLast)
          IN  /\ OpenedNewArticle => breakCondition
              /\ ~breakCondition =>
                    /\ Len(current_article[1].blocks) >= 2
                    /\ current_article[1].blocks[Len(current_article[1].blocks)] = LastConsumed
    /\ (/\ pc = "done"
        /\ sorted_blocks = << InColumn(Frag(TextPlain, 0, 0, 4, 10), 0),
                              InColumn(Frag(TextPlain, 0, 10, 4, 10), 0),
                              InColumn(Frag(TextPlain, 0, 20, 4, 10), 0),
                              InColumn(Frag(TextPlain, 12, 0, 4, 10), 1) >>) =>
          /\ Len(result) = 2
          /\ result[1].num_blocks = 3 /\ result[2].num_blocks = 1

C6_Witness ==
    /\ pc = "done"
    /\ sorted_blocks = << InColumn(Frag(TextPlain, 0, 0, 4, 10), 0),
                          InColumn(Frag(TextPlain, 0, 10, 4, 10), 0),
                          InColumn(Frag(TextPlain, 0, 20, 4, 10), 0),
                          InColumn(Frag(TextPlain, 12, 0, 4, 10), 1) >>
    /\ Len(result) = 2

(***************************************************************************)
(* Headlines                                                               *)
(***************************************************************************)
\* position in sorted_blocks of the first member of the k-th article of as
RECURSIVE StartOf(_, _)
StartOf(as, k) == IF k = 1 THEN 1 ELSE StartOf(as, k - 1) + Len(as[k - 1].blocks)

\* the classifier accepts no member of the k-th article: the opening fragment
\* among its neighbours in the stream, a later one among the members up to it
NoMemberQualifies(as, k) ==
    /\ ~ClassifiedHeadline(StartOf(as, k))
    /\ \A j \in 2..Len(as[k].blocks) :
          ~is_likely_headline(as[k].blocks[j], SubSeq(as[k].blocks, 1, j))

\* C7 (headline backfill): a step that appends a fragment to an open article
\* without headline sets the headline to the fragment's text when the
\* classifier accepts the fragment among the article's members; an article
\* none of whose members is accepted is returned with an empty headline.
C7_HeadlineBackfill ==
    [][/\ (/\ pc = "loop" /\ i <= Len(sorted_blocks) /\ current_article # <<>>
           /\ Len(current_article'[1].blocks) = Len(current_article[1].blocks) + 1
           /\ current_article[1].headline = <<>>
           /\ is_likely_headline(sorted_blocks[i], Append(current_article[1].blocks, sorted_blocks[i])))
          => current_article'[1].headline = sorted_blocks[i].text
       /\ pc = "post" =>
            \A k \in 1..Len(articles) :
                NoMemberQualifies(articles, k) => articles'[k].headline = <<>>]_vars

\* one article whose headline is its second member's text, another without
C7_Witness ==
    /\ pc = "post"
    /\ \E k \in 1..Len(articles) :
          /\ Len(articles[k].blocks) >= 2
          /\ articles[k].blocks[1].text = TextPlain
          /\ articles[k].blocks[2].text = TextUpper
          /\ articles[k].headline = TextUpper
    /\ \E k \in 1..Len(articles) :
          NoMemberQualifies(articles, k) /\ articles[k].headline = <<>>

WhitechapelScenario ==
    << InColumn(Frag(TextUpper, 0, 0, 4, 10), 0),
       InColumn(Frag(TextPlain, 0, 10, 4, 10), 0),
       InColumn(Frag(TextPlain, 0, 20, 4, 10), 0),
       InColumn(Frag(TextPlain, 1, 30, 2, 10), 0) >>

\* C8 as claimed (headline stability): whenever the fragment that opened the
\* open article is classified as a headline, the article's headline is that
\* fragment's text, whatever has been appended since.
C8_HeadlineStable ==
    (pc = "loop" /\ current_article # <<>>) =>
        LET a == current_article[1]
        IN  ClassifiedHeadline(i - Len(a.blocks)) => a.headline = a.blocks[1].text

\* C8 amended: whenever the fragment that opened the open article is
\* classified as a headline and its text is not empty, the article's headline
\* is that fragment's text, whatever has been appended since; "WHITECHAPEL
\* HORROR" followed by three lower-case fragments in the same column with
\* small gaps gives one article with that headline.
C8_NonEmptyHeadlineStable ==
    /\ (pc = "loop" /\ current_article # <<>>) =>
          LET a == current_article[1]
          IN  (ClassifiedHeadline(i - Len(a.blocks)) /\ a.blocks[1].text # <<>>)
                 => a.headline = a.blocks[1].text
    /\ (pc = "done" /\ sorted_blocks = WhitechapelScenario) =>
          /\ Len(result) = 1
          /\ result[1].headline = TextUpper

C8_Witness ==
    /\ pc = "done"
    /\ sorted_blocks = WhitechapelScenario
    /\ result[1].headline = TextUpper
    /\ result[1].num_blocks = 4

(***************************************************************************)
(* Materialised fields                                                     *)
(***************************************************************************)
\* C9 (bbox envelope): the bbox given to an article by the post-processing
\* pass contains the bbox of every member and each of its four edges is the
\* edge of some member.
C9_BboxEnvelope ==
    [][pc = "post" =>
         \A k \in 1..Len(articles) :
             LET bs == articles[k].blocks
                 bb == articles'[k].bbox
             IN  /\ \A j \in 1..Len(bs) :
                       /\ bb.x <= bs[j].bbox.x
                       /\ bb.y <= bs[j].bbox.y
                       /\ bs[j].bbox.x + bs[j].bbox.width <= bb.x + bb.width
                       /\ bs[j].bbox.y + bs[j].bbox.height <= bb.y + bb.height
                 /\ \E j \in 1..Len(bs) : bs[j].bbox.x = bb.x
                 /\ \E j \in 1..Len(bs) : bs[j].bbox.y = bb.y
                 /\ \E j \in 1..Len(bs) : bs[j].bbox.x + bs[j].bbox.width = bb.x + bb.width
                 /\ \E j \in 1..Len(bs) : bs[j].bbox.y + bs[j].bbox.height = bb.y + bb.height]_vars

\* an article whose envelope is wider than each of its members, and whose
\* lowest edge is not the edge of its last member
C9_Witness ==
    /\ pc = "done"
    /\ \E k \in 1..Len(result) :
          /\ result[k].num_blocks >= 2
          /\ result[k].bbox.x = 0
          /\ result[k].bbox.width = 8
          /\ result[k].bbox.y + result[k].bbox.height > result[k].end_y

\* number of characters of the joined text before the j-th member's text
RECURSIVE OffsetOf(_, _)
OffsetOf(bs, j) == IF j = 1 THEN 0 ELSE OffsetOf(bs, j - 1) + Len(bs[j - 1].text) + 1

\* C10 (full_text): the full_text given to an article consists of the texts
\* of its members in their order, each two neighbours separated by exactly one
\* space, and of nothing else.
C10_FullText ==
    [][pc = "post" =>
         \A k \in 1..Len(articles) :
             LET bs == articles[k].blocks
                 ft == articles'[k].full_text
                 n  == Len(bs)
             IN  /\ Len(ft) = OffsetOf(bs, n) + Len(bs[n].text)
                 /\ \A j \in 1..n :
                       SubSeq(ft, OffsetOf(bs, j) + 1, OffsetOf(bs, j) + Len(bs[j].text)) = bs[j].text
                 /\ \A j \in 2..n : ft[OffsetOf(bs, j)] = " "]_vars

C10_Witness ==
    /\ pc = "done"
    /\ Len(result) >= 2
    /\ \E k \in 1..Len(result) :
          /\ result[k].num_blocks = 2
          /\ result[k].full_text = TextUpper \o <<" ">> \o TextPlain

\* ---------------------------------------------------------------------------
\* C12
\* ---------------------------------------------------------------------------

\* C12 (idempotence): when a call has returned, a second call on the list it
\* was given, whose fragments now carry the column indices the call wrote,
\* returns the articles the call returned.
C12_Idempotence ==
    pc = "done" => group_into_articles(text_blocks, page_width) = result

\* a call has returned two articles for a list that was not in reading order,
\* and it has written a column index other than the one the fragments came with
C12_Witness ==
    /\ pc = "done"
    /\ Len(result) >= 2
    /\ text_blocks # sorted_blocks
    /\ \E k \in 1..Len(text_blocks) : text_blocks[k].column >= 1

\* ---------------------------------------------------------------------------
\* C16
\* ---------------------------------------------------------------------------

\* the heights of the fragments of a neighbourhood added up
RECURSIVE TotalHeight(_)
TotalHeight(s) == IF s = <<>> THEN 0 ELSE s[1].bbox.height + TotalHeight(Tail(s))

\* The four signals of the call.  The height signal needs a neighbourhood to
\* take an average of: height > 1.3 * total / n, times 10 * n.
HeightSignal ==
    LET n == Len(fn_args.surrounding_blocks)
    IN  n > 0 /\ 10 * n * fn_args.block.bbox.height > 13 * TotalHeight(fn_args.surrounding_blocks)

ShortSignal == Len(fn_args.block.text) < 100

CasingSignal == istitle(fn_args.block.text) \/ isupper(fn_args.block.text)

KeywordSignal ==
    \E w \in { <<"m", "u", "r", "d", "e", "r">>, <<"a", "r", "r", "e", "s", "t", "e", "d">>,
               <<"f", "o", "u", "n", "d">>, <<"d", "e", "a", "t", "h">>,
               <<"t", "r", "i", "a", "l">>, <<"p", "o", "l", "i", "c", "e">> } :
        Contains(w, lower(fn_args.block.text))

SignalsHeld ==
    Cardinality({ s \in { <<"height", HeightSignal>>, <<"short", ShortSignal>>,
                          <<"casing", CasingSignal>>, <<"keyword", KeywordSignal>> } : s[2] })

\* C16 (classifier threshold): a call of is_likely_headline returns true
\* exactly when at least two of the four signals hold, for every fragment and
\* every neighbourhood, the empty one included.
C16_HeadlineThreshold ==
    fn_pc = "returned" => fn_ret = <<SignalsHeld >= 2>>

\* a fragment with exactly two signals, classified with an empty neighbourhood
C16_Witness ==
    /\ fn_pc = "returned"
    /\ fn_args.surrounding_blocks = <<>>
    /\ SignalsHeld = 2
    /\ fn_ret = <<TRUE>>

\* ---------------------------------------------------------------------------
\* C17
\* ---------------------------------------------------------------------------

\* the class of a character in a date phrase
CharClass(c) ==
    IF c \in {"A", "B", "C", "D", "E", "F", "G", "H", "I", "J", "K", "L", "M",
              "N", "O", "P", "Q", "R", "S", "T", "U", "V", "W", "X", "Y", "Z"} THEN "upper"
    ELSE IF c \in {"a", "b", "c", "d", "e", "f", "g", "h", "i", "j", "k", "l", "m",
                   "n", "o", "p", "q", "r", "s", "t", "u", "v", "w", "x", "y", "z"} THEN "lower"
    ELSE IF c \in {"0", "1", "2", "3", "4", "5", "6", "7", "8", "9"} THEN "digit"
    ELSE IF c \in {" ", "\t", "\n"} THEN "space"
    ELSE c

\* the positions of a text where a run of characters of one class starts
RunStarts(d) == { k \in 1..Len(d) : k = 1 \/ CharClass(d[k]) # CharClass(d[k - 1]) }

\* the runs of equal classes of a text in order, each with its length
Runs(d) ==
    LET starts == RunStarts(d)
        at(j) == CHOOSE k \in starts : Cardinality({ m \in starts : m <= k }) = j
        num == Cardinality(starts)
    IN  [j \in 1..num |->
           [class |-> CharClass(d[at(j)]),
            n |-> (IF j = num THEN Len(d) + 1 ELSE at(j + 1)) - at(j)]]

ClassesOf(r) == [k \in 1..Len(r) |-> r[k].class]

\* the run of class c at position k of r has a length within lo..hi
RunWithin(r, k, lo, hi) == r[k].n >= lo /\ r[k].n <= hi

\* "September 15, 1888", "Sept. 15 1888": a capital, lowercase letters, an
\* optional full stop, blanks, a day of one or two digits, an optional comma,
\* blanks, a year of four digits
IsMonthDayYear(d) ==
    LET r == Runs(d)
        c == ClassesOf(r)
        n == Len(r)
    IN  /\ c \in { <<"upper", "lower", "space", "digit", "space", "digit">>,
                   <<"upper", "lower", ".", "space", "digit", "space", "digit">>,
                   <<"upper", "lower", "space", "digit", ",", "space", "digit">>,
                   <<"upper", "lower", ".", "space", "digit", ",", "space", "digit">> }
        /\ r[1].n = 1
        /\ \A k \in 1..n : r[k].class \in {".", ","} => r[k].n = 1
        /\ \E k \in 3..(n - 2) : r[k].class = "digit" /\ RunWithin(r, k, 1, 2)
        /\ r[n].n = 4

\* "15 September 1888", "15 Sept. 1888"
IsDayMonthYear(d) ==
    LET r == Runs(d)
        c == ClassesOf(r)
        n == Len(r)
    IN  /\ c \in { <<"digit", "space", "upper", "lower", "space", "digit">>,
                   <<"digit", "space", "upper", "lower", ".", "space", "digit">> }
        /\ RunWithin(r, 1, 1, 2)
        /\ r[3].n = 1
        /\ \A k \in 1..n : r[k].class = "." => r[k].n = 1
        /\ r[n].n = 4

\* "09/15/1888"
IsSlashedDate(d) ==
    LET r == Runs(d)
    IN  /\ ClassesOf(r) = <<"digit", "/", "digit", "/", "digit">>
        /\ RunWithin(r, 1, 1, 2) /\ r[2].n = 1 /\ RunWithin(r, 3, 1, 2) /\ r[4].n = 1
        /\ r[5].n = 4

\* a date phrase can only start with a capital or a digit and end with a digit
IsDatePhrase(d) ==
    /\ Len(d) >= 8
    /\ CharClass(d[Len(d)]) = "digit"
    /\ CharClass(d[1]) \in {"upper", "digit"}
    /\ IsMonthDayYear(d) \/ IsDayMonthYear(d) \/ IsSlashedDate(d)

\* the window process_page scans for the article of the call: the headline,
\* a blank and the first 200 characters of the body text
ScannedWindow ==
    fn_args.headline \o <<" ">> \o
        [k \in 1..(IF Len(fn_args.full_text) < 200 THEN Len(fn_args.full_text) ELSE 200) |->
            fn_args.full_text[k]]

\* the date phrases that occur in a text
PhrasesIn(w) ==
    { d \in { SubSeq(w, p, q) : p \in 1..Len(w), q \in 1..Len(w) } : IsDatePhrase(d) }

\* C17: the extracted date of an article is None or a substring of the scanned
\* window that is a date phrase of one of the three forms; it is None exactly
\* when the window holds no date phrase; and the call returns on every input.
C17_DateNeverGuesses ==
    /\ fn_pc \in {"call", "returned"}
    /\ fn_pc = "returned" =>
          LET found == PhrasesIn(ScannedWindow)
          IN  /\ fn_ret = <<>> \/ (Len(fn_ret) = 1 /\ fn_ret[1] \in found)
              /\ found = {} => fn_ret = <<>>

\* a date was found in the window of an article whose body text goes on past
\* the window
C17_Witness ==
    /\ fn_pc = "returned"
    /\ fn_ret # <<>>
    /\ Len(fn_args.full_text) > 200

\* ---------------------------------------------------------------------------
\* C11, C13, C14, C15: the run of main over all pages
\* ---------------------------------------------------------------------------

\* the page p of document d has been processed
Processed(d, p) ==
    /\ d \in 1..Len(ocr_data) /\ p \in 1..Len(ocr_data[d].pages)
    /\ d < pdf_idx \/ (d = pdf_idx /\ p < page_idx)

ProcessedPages ==
    { dp \in (1..Len(ocr_data)) \X (1..MaxPages) : Processed(dp[1], dp[2]) }

\* the records of the run's output that come from page p of document d
ArticlesOf(d, p) ==
    SelectSeq(all_articles,
              LAMBDA a : a.source_pdf = ocr_data[d].filename /\ a.page_number = p)

\* what the grouper is given for a page: the text and the box of every
\* fragment in input order, and the page width
GrouperInput(page) ==
    LET blocks == IF "text_blocks" \in DOMAIN page THEN page.text_blocks ELSE <<>>
    IN  [fragments |-> [k \in 1..Len(blocks) |-> [text |-> blocks[k].text, bbox |-> blocks[k].bbox]],
         width |-> IF "image_width" \in DOMAIN page THEN page.image_width ELSE 2000]

\* what the grouper returned for an article: boundaries, members, headline,
\* id and bbox
GrouperOutput(a) ==
    [article_id |-> a.article_id, headline |-> a.headline, column |-> a.column,
     start_y |-> a.start_y, end_y |-> a.end_y, full_text |-> a.full_text,
     bbox |-> a.bbox, word_count |-> a.word_count, num_blocks |-> a.num_blocks]

OutputOf(d, p) ==
    LET as == ArticlesOf(d, p) IN [k \in 1..Len(as) |-> GrouperOutput(as[k])]

IsGrouped(d, p) == Processed(d, p) /\ "error" \notin DOMAIN ocr_data[d].pages[p]

\* C11 (determinism): any two pages of a run that hand the grouper the same
\* fragments and the same page width get the same article list, whatever was
\* processed before either of them.
C11_Determinism ==
    \A x \in ProcessedPages : \A y \in ProcessedPages :
        ( /\ IsGrouped(x[1], x[2]) /\ IsGrouped(y[1], y[2])
          /\ GrouperInput(ocr_data[x[1]].pages[x[2]]) = GrouperInput(ocr_data[y[1]].pages[y[2]]) )
        => OutputOf(x[1], x[2]) = OutputOf(y[1], y[2])

\* the same two-article page was grouped twice, the second time after a page
\* in between had produced articles of its own
C11_Witness ==
    /\ main_pc = "saved"
    /\ \E x \in ProcessedPages : \E y \in ProcessedPages :
          /\ x # y
          /\ IsGrouped(x[1], x[2]) /\ IsGrouped(y[1], y[2])
          /\ GrouperInput(ocr_data[x[1]].pages[x[2]]) = GrouperInput(ocr_data[y[1]].pages[y[2]])
          /\ Len(OutputOf(x[1], x[2])) = 2
          /\ Len(all_articles) = 5

\* the fragment list process_page hands to group_into_articles for the page
\* main is at
FragmentsOfPage ==
    IF "text_blocks" \in DOMAIN page_data THEN page_data.text_blocks ELSE <<>>

\* C13 (empty input): while main is in a page without fragments, every step
\* is a return: group_into_articles returns the empty list, process_page
\* hands nothing to main, and nothing raises.
C13_EmptyInput ==
    [][(main_pc = "in_page" /\ FragmentsOfPage = <<>>) =>
          /\ pc' \in {"done", "idle"}
          /\ result' = <<>>
          /\ all_articles' = all_articles
          /\ main_pc' # "crashed"]_vars

\* main has gone past a page without fragments that follows a page with
\* articles
C13_Witness ==
    /\ main_pc = "pages" /\ pc = "idle"
    /\ page_idx = 3
    /\ "error" \notin DOMAIN ocr_data[pdf_idx].pages[2]
    /\ GrouperInput(ocr_data[pdf_idx].pages[2]).fragments = <<>>
    /\ result = <<>>
    /\ all_articles # <<>>

\* every fragment of the list has a box and one of them has height 0
HasZeroHeight(blocks) ==
    /\ \A k \in 1..Len(blocks) : "bbox" \in DOMAIN blocks[k]
    /\ \E k \in 1..Len(blocks) : blocks[k].bbox.height = 0

\* C14 (zero-height fragments): a call on a list with a fragment of height 0
\* never raises, and when its loop has closed the last article every fragment
\* of height 0 is a member of exactly one article.
C14_ZeroHeight ==
    [][(pc \in {"start", "loop", "post"} /\ HasZeroHeight(text_blocks)) =>
          /\ pc' # "raised"
          /\ pc = "post" =>
                \A k \in 1..Len(text_blocks) :
                    text_blocks[k].bbox.height = 0 =>
                        Cardinality({ a \in 1..Len(articles) :
                                        \E m \in 1..Len(articles[a].blocks) :
                                            articles[a].blocks[m] = text_blocks[k] }) = 1]_vars

\* a page of two fragments of height 0 has been grouped
C14_Witness ==
    /\ pc = "done"
    /\ Len(text_blocks) = 2
    /\ \A k \in 1..2 : text_blocks[k].bbox.height = 0
    /\ Len(result) = 2

\* C15 (article_id uniqueness): no two article records of a run carry the same
\* article_id.
C15_ArticleIdUnique ==
    \A j \in 1..Len(all_articles) : \A k \in 1..Len(all_articles) :
        j # k => all_articles[j].article_id # all_articles[k].article_id

\* ---------------------------------------------------------------------------
\* C18, C19, C20: the column boundaries
\* ---------------------------------------------------------------------------

StrictlyIncreasing(s) == \A k \in 1..(Len(s) - 1) : s[k] < s[k + 1]

\* C18 (column boundary set): every list detect_column_boundaries returns is
\* strictly increasing, starts with 0 and ends with the page width.
C18_BoundarySet ==
    fn_pc = "returned" =>
        /\ StrictlyIncreasing(fn_ret)
        /\ fn_ret[1] = 0
        /\ fn_ret[Len(fn_ret)] = fn_args.width

\* the page of the call carries no ink: no line pixel in the profile, no line
\* found by HoughLinesP
BlankPage ==
    IF fn_args.detector = "preprocess"
    THEN \A k \in 1..Len(fn_args.projection) : fn_args.projection[k] = 0
    ELSE fn_args.lines = <<>>

\* C19 (degenerate page): no call raises, and the call for a blank page
\* returns the single column <<0, width>>.
C19_DegeneratePage ==
    /\ fn_pc # "raised"
    /\ (fn_pc = "returned" /\ BlankPage) => fn_ret = <<0, fn_args.width>>

\* the dividers the call detects before it decides whether to use them: the
\* peaks of the smoothed profile, the clustered lines
Dividers ==
    IF fn_args.detector = "preprocess"
    THEN LocalMaxima(smooth_projection(fn_args.projection, WindowSize(fn_args.width)))
    ELSE IF VerticalLines(fn_args.lines) = <<>> THEN {}
         ELSE Range(ClusteredLines(VerticalLines(fn_args.lines)))

\* b divides the width into n bands that are even up to rounding: n + 1
\* boundaries from 0 to width, every band within n pixels of width / n
IsEvenDivision(b, width, n) ==
    /\ Len(b) = n + 1
    /\ b[1] = 0 /\ b[n + 1] = width
    /\ \A k \in 1..n : /\ n * (b[k + 1] - b[k]) - width < n * n
                       /\ width - n * (b[k + 1] - b[k]) < n * n

\* C20 as claimed (even-division fallback): a number of detected dividers too
\* small or too large for the expected columns makes the call return the even
\* division into the expected columns.
C20_FallbackWhenImplausible ==
    (fn_pc = "returned" /\ ( \/ Cardinality(Dividers) < ExpectedColumns - 2
                             \/ Cardinality(Dividers) > ExpectedColumns - 1 ))
        => IsEvenDivision(fn_ret, fn_args.width, ExpectedColumns)

\* the fewest dividers the detector of the call goes on with
FewestUsed == IF fn_args.detector = "preprocess" THEN ExpectedColumns - 2 ELSE ExpectedColumns - 1

\* the smoothed profile of a call of the detector of preprocess.py
Smoothed == smooth_projection(fn_args.projection, WindowSize(fn_args.width))

\* C20 (even-division fallback, as the code has it): the call returns the even
\* division into the expected columns when it detects too few dividers (fewer
\* than expected_columns - 2 peaks in preprocess.py, fewer than
\* expected_columns - 1 lines in process_pdfs.py).  Otherwise it returns 0, the
\* width and detected dividers: process_pdfs.py all of them, however many, and
\* preprocess.py the expected_columns - 1 tallest of them.
C20_FallbackWhenTooFew ==
    fn_pc = "returned" =>
        LET n == Cardinality(Dividers)
            used == Range(fn_ret) \ {0, fn_args.width}
        IN  /\ n < FewestUsed => IsEvenDivision(fn_ret, fn_args.width, ExpectedColumns)
            /\ (n >= FewestUsed /\ fn_args.detector = "process_pdfs") =>
                  Range(fn_ret) = Dividers \cup {0, fn_args.width}
            /\ (n >= FewestUsed /\ fn_args.detector = "preprocess") =>
                  /\ used \subseteq Dividers
                  /\ Cardinality(used) = (IF n < ExpectedColumns - 1 THEN n ELSE ExpectedColumns - 1)
                  /\ \A p \in used : \A q \in Dividers \ used : Smoothed[q + 1] <= Smoothed[p + 1]

\* a call that detected more dividers than the expected columns need has
\* returned
C20_Witness ==
    /\ fn_pc = "returned"
    /\ Cardinality(Dividers) > ExpectedColumns - 1

\* ---------------------------------------------------------------------------
\* C30
\* ---------------------------------------------------------------------------

\* twice the horizontal centre of a fragment
Centre2(b) == 2 * b.bbox.x + b.bbox.width

\* the centre of b lies in the band of 0-based index c of a page of width W
\* divided into 3 bands: c * W / 3 <= centre < (c + 1) * W / 3, times 6
CentreInBand(b, c, W) == 2 * c * W <= 3 * Centre2(b) /\ 3 * Centre2(b) < 2 * (c + 1) * W

\* C30 (column assignment): every fragment gets an index in 0..2; a fragment
\* whose centre lies in a band gets the band's index; among the fragments
\* whose centre lies within the page the index does not decrease with the
\* centre; a fragment whose centre lies in no band gets the last index.
C30_ColumnAssignment ==
    fn_pc = "returned" =>
        LET W == fn_args.page_width
            n == Len(fn_args.text_blocks)
            within(b) == Centre2(b) >= 0 /\ Centre2(b) < 2 * W
        IN  /\ Len(fn_ret) = n
            /\ \A k \in 1..n :
                  /\ fn_ret[k].column \in 0..2
                  /\ \A c \in 0..2 : CentreInBand(fn_args.text_blocks[k], c, W) => fn_ret[k].column = c
                  /\ ~within(fn_args.text_blocks[k]) => fn_ret[k].column = 2
            /\ \A j \in 1..n : \A k \in 1..n :
                  ( /\ within(fn_args.text_blocks[j]) /\ within(fn_args.text_blocks[k])
                    /\ Centre2(fn_args.text_blocks[j]) <= Centre2(fn_args.text_blocks[k]) )
                  => fn_ret[j].column <= fn_ret[k].column

\* one fragment with its centre left of the page and one with its centre on
\* the edge between the first two bands have been assigned
C30_Witness ==
    /\ fn_pc = "returned"
    /\ Centre2(fn_args.text_blocks[1]) < 0
    /\ fn_ret[1].column = 2
    /\ 3 * Centre2(fn_args.text_blocks[2]) = 2 * fn_args.page_width
    /\ fn_ret[2].column = 1

\* ---------------------------------------------------------------------------
\* C22, C23, C24
\* ---------------------------------------------------------------------------

\* the fragments of a page that keep the input contract
WellFormed(page) ==
    LET blocks == IF "text_blocks" \in DOMAIN page THEN page.text_blocks ELSE <<>>
    IN  SelectSeq(blocks, LAMBDA b : "bbox" \in DOMAIN b)

\* C22 (malformed fragment handling): a fragment without bbox does not abort
\* its page: no call raises, and the articles of every page that has been
\* grouped hold the well-formed fragments of the page, all of them.
C22_MalformedSkipped ==
    /\ pc # "raised"
    /\ \A x \in ProcessedPages :
          IsGrouped(x[1], x[2]) =>
              SumNumBlocks(ArticlesOf(x[1], x[2])) = Len(WellFormed(ocr_data[x[1]].pages[x[2]]))

\* the pages of the run in the order main visits them, as <<document, page>>
AllPages ==
    { dp \in (1..Len(ocr_data)) \X (1..MaxPages) : dp[2] <= Len(ocr_data[dp[1]].pages) }

\* C23 (page failure isolation): the run of main is never cut short, and in
\* the saved output a page recorded with an error has no article, every other
\* page has its fragments in its articles, and total_articles is the number of
\* articles listed.
C23_PageIsolation ==
    /\ main_pc # "crashed"
    /\ main_pc = "saved" =>
          /\ \A x \in AllPages :
                LET page == ocr_data[x[1]].pages[x[2]]
                IN  IF "error" \in DOMAIN page
                    THEN ArticlesOf(x[1], x[2]) = <<>>
                    ELSE SumNumBlocks(ArticlesOf(x[1], x[2])) = Len(GrouperInput(page).fragments)
          /\ output[1].articles = all_articles
          /\ output[1].total_articles = Len(output[1].articles)

\* C24 (purity of the grouper): a call of group_into_articles never changes
\* the fragment list it was given, nor a fragment in it.
C24_InputUntouched ==
    [][(pc \in {"start", "loop", "post"}) => text_blocks' = text_blocks]_vars

\* ---------------------------------------------------------------------------
\* C21
\* ---------------------------------------------------------------------------

\* the box a stage emitted, whichever shape the stage writes
EmittedBox ==
    IF fn_args.engine \in {"tesseract", "surya"}
    THEN [x |-> fn_ret.bbox[1], y |-> fn_ret.bbox[2],
          width |-> fn_ret.bbox[3], height |-> fn_ret.bbox[4]]
    ELSE fn_ret.bbox

\* the box inside the crop: the extent of the polygon for the column stage
LocalBox ==
    IF fn_args.engine = "paddle"
    THEN [x |-> fn_args.box.x, y |-> fn_args.box.y,
          width |-> fn_args.box.width + fn_args.slant, height |-> fn_args.box.height]
    ELSE fn_args.box

\* left and top edge of the crop that was taken
CropLeft ==
    IF fn_args.engine = "paddle"
    THEN Max(0, fn_args.boundaries[fn_args.col] - Px(ColumnMargin))
    ELSE fn_args.snip.x_offset

CropTop == IF fn_args.engine = "paddle" THEN 0 ELSE fn_args.snip.y_offset

Translated ==
    [x |-> LocalBox.x + CropLeft, y |-> LocalBox.y + CropTop,
     width |-> LocalBox.width, height |-> LocalBox.height]

\* C21 as stated: every emitted box is the box inside the crop moved by the
\* left and top edge of the crop, its width and height unchanged
C21_OffsetTranslation ==
    fn_pc = "returned" => EmittedBox = Translated

\* C21 amended: the stages that keep the detector's numbers (column OCR,
\* Tesseract, Gemini) emit exactly the moved box; Surya emits each of the four
\* numbers of the moved box truncated to a whole pixel
C21_OffsetTranslationTruncated ==
    fn_pc = "returned" =>
        IF fn_args.engine = "surya"
        THEN EmittedBox = [x |-> IntOf(Translated.x), y |-> IntOf(Translated.y),
                           width |-> IntOf(Translated.width),
                           height |-> IntOf(Translated.height)]
        ELSE EmittedBox = Translated

\* a Surya line between whole pixels in a crop away from the page origin
C21_Witness ==
    /\ fn_pc = "returned"
    /\ fn_args.engine = "surya"
    /\ fn_args.snip.x_offset > 0
    /\ fn_args.snip.y_offset > 0
    /\ fn_args.box.x % PerPixel = 1
    /\ fn_args.box.width % PerPixel = 1
    /\ EmittedBox # Translated

\* ---------------------------------------------------------------------------
\* C25
\* ---------------------------------------------------------------------------

\* the snippets (by index from 0) whose image loads
Loaded == { k \in 0..(Len(fn_args) - 1) : fn_args[k + 1] }

\* the places, batch and position in it, where snippet k was passed to OCR
PassedAt(k) ==
    { <<b, p>> \in (1..Len(world.batches)) \X (1..BATCH_SIZE) :
        p <= Len(world.batches[b]) /\ world.batches[b][p] = k }

\* C25: when the script has finished, every snippet image that loaded was
\* passed to OCR in exactly one batch, whichever snippets failed to load, those
\* at the end of the list included, and no batch held more than BATCH_SIZE images
C25_SuryaBatching ==
    (fn_pc = "done" /\ total_snippets # 0) =>
        /\ \A k \in Loaded : Cardinality(PassedAt(k)) = 1
        /\ \A b \in 1..Len(world.batches) : Len(world.batches[b]) <= BATCH_SIZE

\* ---------------------------------------------------------------------------
\* C26
\* ---------------------------------------------------------------------------

Good(response) == Parses(response) /\ Validates(response)

\* the requests issued before the last one all failed
EarlierFailed ==
    \A k \in 1..(Len(world.requests) - 1) : ~Good(world.requests[k])

AllFailed == \A k \in 1..Len(world.requests) : ~Good(world.requests[k])

IsList(v) == DOMAIN v = 1..Len(v)

GeminiProtocol ==
    fn_pc \in {"gemini_loop", "gemini_fallback", "returned"} =>
        /\ Len(world.requests) <= fn_args.max_retries
        /\ EarlierFailed
        /\ Len(world.fallbacks) <= 1
        /\ Len(world.fallbacks) = 1 =>
               (AllFailed /\ Len(world.requests) = fn_args.max_retries)
        /\ fn_pc = "returned" =>
            /\ IsList(fn_ret)
            /\ IF Len(world.requests) > 0 /\ Good(world.requests[Len(world.requests)])
               THEN /\ world.fallbacks = <<>>
                    /\ fn_ret = Confident(world.requests[Len(world.requests)].items)
               ELSE IF fn_args.max_retries > 0
                    THEN /\ Len(world.requests) = fn_args.max_retries
                         /\ Len(world.fallbacks) = 1
                         /\ fn_ret = fallback_text_extraction(world.fallbacks[1],
                                                              fn_args.width, fn_args.height)
                    ELSE /\ world.fallbacks = <<>>
                         /\ fn_ret = <<>>

\* C26: gemini_ocr issues at most max_retries structured requests; the first
\* response that parses and validates ends the call with its blocks and no
\* further request; the fallback runs only after max_retries failures, once,
\* and its result is returned; every call returns a list
C26_GeminiRetry ==
    /\ []GeminiProtocol
    /\ <>(fn_pc = "returned" /\ IsList(fn_ret))

\* three failures of three kinds, then the fallback's single block
C26_Witness ==
    /\ fn_pc = "returned"
    /\ fn_args.max_retries = 3
    /\ Len(world.requests) = 3
    /\ world.requests[1].kind = "api_error"
    /\ world.requests[2].kind = "not_json"
    /\ world.requests[3].type = "list"
    /\ world.fallbacks = <<"text">>
    /\ Len(fn_ret) = 1

\* ---------------------------------------------------------------------------
\* C27
\* ---------------------------------------------------------------------------

StepOrder ==
    <<"preprocess.py", OcrScript(fn_args.ocr_engine), "segment_articles.py",
      "tag_articles.py", "generate_timeline.py", "analyze_text.py">>

\* C27: the scripts are started in the order preprocess, OCR, segment, tag,
\* timeline, analyze; a script is started only after every earlier one exited
\* with status 0; after the first non-zero exit nothing more is started and
\* the runner exits with status 1; the banner is printed only after six
\* scripts exited with status 0
C27_PipelineOrder ==
    fn_pc \in {"pipeline_loop", "exited"} =>
        LET n == Len(world.started)
        IN  /\ n <= 6
            /\ Len(world.statuses) = n
            /\ \A k \in 1..n : world.started[k] = StepOrder[k]
            /\ \A k \in 1..(n - 1) : world.statuses[k] = 0
            /\ (n > 0 /\ world.statuses[n] # 0) => (fn_pc = "exited" /\ fn_ret = <<1>>)
            /\ fn_ret = <<1>> => (n > 0 /\ world.statuses[n] # 0)
            /\ world.banner =>
                   (n = 6 /\ \A k \in 1..6 : world.statuses[k] = 0)
            /\ fn_pc = "exited" =>
                   (world.banner <=> (n = 6 /\ world.statuses[6] = 0))

\* the fourth script ends with status 2 and the runner has exited
C27_Witness ==
    /\ fn_pc = "exited"
    /\ world.started = <<"preprocess.py", "process_images_surya_batch.py",
                         "segment_articles.py", "tag_articles.py">>
    /\ world.statuses = <<0, 0, 0, 2>>
    /\ fn_ret = <<1>>
    /\ ~world.banner

\* ---------------------------------------------------------------------------
\* C28
\* ---------------------------------------------------------------------------

\* C28: whichever engine is selected, the OCR script writes the file that
\* segment_articles.py reads, and in a run that ends with the banner
\* articles.json has been written from the OCR output of this run
C28_StageHandOff ==
    (fn_pc = "exited" /\ world.banner) =>
        /\ Writes(OcrScript(fn_args.ocr_engine)) = Reads("segment_articles.py")
        /\ "data/processed/articles.json" \in DOMAIN world.files
        /\ world.files["data/processed/articles.json"] = "fresh"

\* ---------------------------------------------------------------------------
\* C29
\* ---------------------------------------------------------------------------

Murders == { k \in 1..Len(LONDON_EVENTS) : LONDON_EVENTS[k].type = "murder" }

\* the murders on or before the date that no other such murder is later than
LatestMurders(date) ==
    { k \in Murders :
        /\ DateLeq(LONDON_EVENTS[k].date, date)
        /\ \A j \in Murders : DateLeq(LONDON_EVENTS[j].date, date) =>
               DateLeq(LONDON_EVENTS[j].date, LONDON_EVENTS[k].date) }

\* C29: the event of a Whitechapel article whose date is a calendar date on
\* or after the first murder carries the latest murder on or before that date
\* and the days between the two, 0 included; an event without a date carries
\* neither field
C29_TimeLag ==
    (fn_pc = "returned" /\ fn_args.is_whitechapel) =>
        LET event == fn_ret[1]
            date_iso == fn_args.date_iso
        IN  /\ Len(fn_ret) = 1
            /\ date_iso = <<>> =>
                   {"time_lag_days", "related_london_event"} \cap DOMAIN event = {}
            /\ (date_iso # <<>> /\ ValidDate(date_iso[1])
                  /\ LatestMurders(date_iso[1]) # {}) =>
                   /\ {"time_lag_days", "related_london_event"} \subseteq DOMAIN event
                   /\ \E k \in LatestMurders(date_iso[1]) :
                        /\ event.related_london_event = LONDON_EVENTS[k].id
                        /\ event.time_lag_days =
                               ToOrdinal(date_iso[1]) - ToOrdinal(LONDON_EVENTS[k].date)
                        /\ event.time_lag_days >= 0

====
